---- MODULE Spec2Model ----
(***************************************************************************)
(* Model of the realtime cascade processor (FilterProcessor, the audio     *)
(* worklet of signal-filter-visual) and of the message port that feeds it. *)
(*                                                                         *)
(* Numbers.  The worklet computes in IEEE doubles.  Every number of the    *)
(* model is a dyadic rational m / 2^e kept in lowest terms, <<m, e>>, and  *)
(* the arithmetic below is exact.  As long as |m| < 2^MantBits the double  *)
(* arithmetic of the program is exact too (a double has a 53 bit mantissa),*)
(* so on these values the model computes what the program computes.  A     *)
(* result outside that range is BIG; a block whose computation leaves the  *)
(* range is outside the model's bounds.                                    *)
(*                                                                         *)
(* The module also models the filter design (designFilter: analog          *)
(* prototype poles, conjugate pairing, bilinear transform, section         *)
(* building and the frequency response) and the App that calls it          *)
(* (handleFilterChange, handleToggle), the AudioEngine (init, start,       *)
(* stop, updateFilterParams, destroy) whose designs reach the worklet      *)
(* through the port, and pairConjugatePoles on poles of any kind.          *)
(* The design computes in exact rationals <<n, d>> in lowest terms; a      *)
(* value whose numerator or denominator leaves 2^QBits is QBIG.  The       *)
(* transcendental functions of the program are replaced by rational        *)
(* approximations with the same symmetries (see SinPi, Sinh, Cosh).        *)
(***************************************************************************)
EXTENDS Integers, Sequences, FiniteSets, TLC

VARIABLES
  sections, oldCoeffs, newCoeffs, interpPos, interpolating, \* FilterProcessor fields
  port,       \* messages posted to the worklet port and not yet delivered
  \* the process() calls since the last update: of the latest one,
  inputs,     \* its inputs[0]
  outputs,    \* its outputs[0] when it returned
  ret,        \* what it returned ("none": no call since the update)
  trace,      \* the sections and the output after each sample of its loop
  \* history
  upd,        \* the last update applied and the samples presented since
  fed,        \* the samples presented since the section count last changed
  burst,      \* the messages posted since the port was last empty
  nBlocks, nMsgs, nImpulses,  \* counters that bound the run
  \* the App and the filter design
  filterParams, \* the filterParams state of the App
  isRunning,    \* its isRunning state
  ctx,          \* the sample rate of the engine's AudioContext, Null before init()
  calls,        \* the designFilter calls of the latest step, with their results
  memo,         \* history: the inputs and results of the tracked calls so far
  nDesigns,     \* counter: the calls made from outside the App
  \* the AudioEngine
  engine,       \* its fields other than ctx
  outcome,      \* the latest call of one of its methods and how it ended
  posted,       \* history: the params of the designs posted to the worklet
  \* pairConjugatePoles
  paired        \* the latest call of it: the poles given, the sections returned

procVars == <<sections, oldCoeffs, newCoeffs, interpPos, interpolating>>
ioVars == <<inputs, outputs, ret, trace>>
audioVars == <<sections, oldCoeffs, newCoeffs, interpPos, interpolating,
               port, inputs, outputs, ret, trace, upd, fed, burst,
               nBlocks, nMsgs, nImpulses>>
designVars == <<filterParams, isRunning, ctx, calls, memo, nDesigns>>
engineVars == <<engine, outcome, posted>>
vars == <<audioVars, designVars, engineVars, paired>>

(***************************************************************************)
(* Bounds of the model: the exact range of the numbers (mantissa bits and  *)
(* binary places), and per run the process() calls, the coefficient        *)
(* messages, the blocks that carry an impulse and the messages pending on  *)
(* the port.  BlockLen, the length of the long input block, is below.      *)
(***************************************************************************)
MantBits == 28
MaxExp == 28
MaxBlocks == 2
MaxMsgs == 3
MaxImpulses == 1
MaxPending == 2

(***************************************************************************)
(* Exact dyadic arithmetic.  TLC evaluates an operand each time a          *)
(* definition uses it, so a value that is used more than once is first     *)
(* bound by a quantifier (x \in {e}), which evaluates it once; Only takes  *)
(* the result out of the singleton that this leaves.                       *)
(***************************************************************************)
Only(S) == CHOOSE x \in S : TRUE
Cap == 2^MantBits
BIG == <<0, -1>>
IsBig(a) == a[2] < 0
N(k) == <<k, 0>>
Zero == N(0)
One == N(1)
Abs(k) == IF k < 0 THEN -k ELSE k
MaxOf(a, b) == IF a >= b THEN a ELSE b

\* m / 2^e in lowest terms
Norm(m, e) ==
  IF m = 0 THEN Zero
  ELSE IF e = 0 \/ m % 2 # 0 THEN <<m, e>>
  ELSE Only({<<m \div 2^j, e - j>> :
               j \in {i \in 1..e : m % 2^i = 0 /\ (i = e \/ m % 2^(i + 1) # 0)}})

Neg(a) == <<-a[1], a[2]>>

AddNum(a, b) ==
  IF a[2] < 0 \/ b[2] < 0 THEN BIG
  ELSE IF a[1] = 0 THEN b
  ELSE IF b[1] = 0 THEN a
  ELSE LET e == MaxOf(a[2], b[2])
           sa == 2^(e - a[2])
           sb == 2^(e - b[2])
       IN IF Abs(a[1]) > Cap \div sa \/ Abs(b[1]) > Cap \div sb THEN BIG
          ELSE Only({IF Abs(m) > Cap THEN BIG ELSE Norm(m, e) :
                       m \in {a[1] * sa + b[1] * sb}})

MulNum(a, b) ==
  IF a[2] < 0 \/ b[2] < 0 THEN BIG
  ELSE IF a[1] = 0 \/ b[1] = 0 THEN Zero
  ELSE IF Abs(a[1]) > Cap \div Abs(b[1]) \/ a[2] + b[2] > MaxExp THEN BIG
  ELSE Only({Norm(m, a[2] + b[2]) : m \in {a[1] * b[1]}})

\* a + b, a - b, a * b
Add(a, b) == Only({AddNum(x, y) : x \in {a}, y \in {b}})
Sub(a, b) == Only({AddNum(x, Neg(y)) : x \in {a}, y \in {b}})
Mul(a, b) == Only({MulNum(x, y) : x \in {a}, y \in {b}})

\* p / q for an integer p >= 0 and q a power of two
DivInt(p, q) == Norm(p, Only({k \in 0..30 : 2^k = q}))

(***************************************************************************)
(* FilterProcessor                                                         *)
(***************************************************************************)
\* a field that may be null: <<>> is null, <<v>> holds v
Null == <<>>
Some(v) == <<v>>
Val(f) == f[1]
interpFrames == 256

Coeffs(b0, b1, b2, a1, a2) ==
  [b0 |-> b0, b1 |-> b1, b2 |-> b2, a1 |-> a1, a2 |-> a2]

\* the five coefficients of a section's runtime state
CoeffsOf(s) == Coeffs(s.b0, s.b1, s.b2, s.a1, s.a2)

\* the coefficients of every section
AllCoeffs(secs) == [k \in 1..Len(secs) |-> CoeffsOf(secs[k])]

\* arr[i] ?? d, with JavaScript's 0-based index i
Nullish(arr, i, d) == IF i + 1 <= Len(arr) THEN arr[i + 1] ELSE d

\* const incoming = sos.map(...)
Incoming(sos) ==
  [k \in 1..Len(sos) |->
     Coeffs(sos[k].b[1], sos[k].b[2], Nullish(sos[k].b, 2, Zero),
            Nullish(sos[k].a, 1, Zero), Nullish(sos[k].a, 2, Zero))]

\* a reset that leaves a stale value in the delay memory
ResetSectionStale(c) ==
  [b0 |-> c.b0, b1 |-> c.b1, b2 |-> c.b2, a1 |-> c.a1, a2 |-> c.a2,
   x1 |-> Zero, x2 |-> Zero, y1 |-> One, y2 |-> Zero]

\* incoming.map((c) => ({...c, x1: 0, x2: 0, y1: 0, y2: 0}))
ResetSection(c) ==
  [b0 |-> c.b0, b1 |-> c.b1, b2 |-> c.b2, a1 |-> c.a1, a2 |-> c.a2,
   x1 |-> Zero, x2 |-> Zero, y1 |-> Zero, y2 |-> Zero]

\* an update that, in the middle of an interpolation, starts the next one
\* from the previous target instead of the values the sections hold
UpdateCoefficientsFromTarget(p, sos) ==
  IF Len(Incoming(sos)) # Len(p.sections)
  THEN [p EXCEPT !.sections = [k \in 1..Len(sos) |-> ResetSection(Incoming(sos)[k])],
                 !.interpolating = FALSE]
  ELSE [p EXCEPT !.oldCoeffs = IF p.interpolating THEN p.newCoeffs
                               ELSE Some(AllCoeffs(p.sections)),
                 !.newCoeffs = Some(Incoming(sos)),
                 !.interpPos = 0,
                 !.interpolating = TRUE]

\* an update that starts an interpolation without saving the old coefficients
UpdateCoefficientsNoOld(p, sos) ==
  IF Len(Incoming(sos)) # Len(p.sections)
  THEN [p EXCEPT !.sections = [k \in 1..Len(sos) |-> ResetSection(Incoming(sos)[k])],
                 !.interpolating = FALSE]
  ELSE [p EXCEPT !.newCoeffs = Some(Incoming(sos)),
                 !.interpPos = 0,
                 !.interpolating = TRUE]

\* an update whose reset leaves the flag interpolating as it was
UpdateCoefficientsKeepsFlag(p, sos) ==
  IF Len(Incoming(sos)) # Len(p.sections)
  THEN [p EXCEPT !.sections = [k \in 1..Len(sos) |-> ResetSection(Incoming(sos)[k])]]
  ELSE [p EXCEPT !.oldCoeffs = Some(AllCoeffs(p.sections)),
                 !.newCoeffs = Some(Incoming(sos)),
                 !.interpPos = 0,
                 !.interpolating = TRUE]

\* an update that, with the section count unchanged, also writes the incoming
\* coefficients into the sections at once
UpdateCoefficientsAtOnce(p, sos) ==
  IF Len(Incoming(sos)) # Len(p.sections)
  THEN [p EXCEPT !.sections = [k \in 1..Len(sos) |-> ResetSection(Incoming(sos)[k])],
                 !.interpolating = FALSE]
  ELSE [p EXCEPT !.sections = [k \in 1..Len(sos) |->
                                 [p.sections[k] EXCEPT !.b0 = Incoming(sos)[k].b0,
                                                       !.b1 = Incoming(sos)[k].b1,
                                                       !.b2 = Incoming(sos)[k].b2,
                                                       !.a1 = Incoming(sos)[k].a1,
                                                       !.a2 = Incoming(sos)[k].a2]],
                 !.oldCoeffs = Some(AllCoeffs(p.sections)),
                 !.newCoeffs = Some(Incoming(sos)),
                 !.interpPos = 0,
                 !.interpolating = TRUE]

\* _updateCoefficients(sos): the processor fields after the call
UpdateCoefficients(p, sos) ==
  IF Len(Incoming(sos)) # Len(p.sections)
  THEN [p EXCEPT !.sections = [k \in 1..Len(sos) |-> ResetSection(Incoming(sos)[k])],
                 !.interpolating = FALSE]
  ELSE [p EXCEPT !.oldCoeffs = Some(AllCoeffs(p.sections)),
                 !.newCoeffs = Some(Incoming(sos)),
                 !.interpPos = 0,
                 !.interpolating = TRUE]

\* an interpolation that jumps to the target at once
LerpToTarget(o, n, alpha) == n

\* o + alpha * (n - o)
Lerp(o, n, alpha) == Add(o, Mul(alpha, Sub(n, o)))

\* sec.b0 = o.b0 + alpha * (n.b0 - o.b0); ... for every section
Interpolated(p, alpha) ==
  [s \in 1..Len(p.sections) |->
     [p.sections[s] EXCEPT
        !.b0 = Lerp(Val(p.oldCoeffs)[s].b0, Val(p.newCoeffs)[s].b0, alpha),
        !.b1 = Lerp(Val(p.oldCoeffs)[s].b1, Val(p.newCoeffs)[s].b1, alpha),
        !.b2 = Lerp(Val(p.oldCoeffs)[s].b2, Val(p.newCoeffs)[s].b2, alpha),
        !.a1 = Lerp(Val(p.oldCoeffs)[s].a1, Val(p.newCoeffs)[s].a1, alpha),
        !.a2 = Lerp(Val(p.oldCoeffs)[s].a2, Val(p.newCoeffs)[s].a2, alpha)]]

\* sec.b0 = n.b0; ... for every section
Snapped(p) ==
  [s \in 1..Len(p.sections) |->
     [p.sections[s] EXCEPT !.b0 = Val(p.newCoeffs)[s].b0,
                           !.b1 = Val(p.newCoeffs)[s].b1,
                           !.b2 = Val(p.newCoeffs)[s].b2,
                           !.a1 = Val(p.newCoeffs)[s].a1,
                           !.a2 = Val(p.newCoeffs)[s].a2]]

\* if (this.interpolating) {...}: the interpolation step at the head of the
\* sample loop, the snap to the target included
InterpStep(p) ==
  IF ~p.interpolating THEN p
  ELSE Only({IF q.interpPos >= interpFrames
             THEN [q EXCEPT !.sections = Snapped(q), !.interpolating = FALSE]
             ELSE q :
               q \in {[p EXCEPT !.sections =
                                  Only({Interpolated(p, alpha) :
                                          alpha \in {DivInt(p.interpPos, interpFrames)}}),
                                !.interpPos = p.interpPos + 1]}})

\* a biquad that adds the feedback terms instead of subtracting them
BiquadFeedbackAdded(sec, sample) ==
  [sec EXCEPT !.x2 = sec.x1, !.x1 = sample, !.y2 = sec.y1,
              !.y1 = Add(Add(Add(Add(Mul(sec.b0, sample), Mul(sec.b1, sec.x1)),
                                 Mul(sec.b2, sec.x2)),
                             Mul(sec.a1, sec.y1)),
                         Mul(sec.a2, sec.y2))]

\* a biquad that keeps its output in b0 as well
BiquadWritesB0(sec, sample) ==
  [sec EXCEPT !.x2 = sec.x1, !.x1 = sample, !.y2 = sec.y1,
              !.y1 = Sub(Sub(Add(Add(Mul(sec.b0, sample), Mul(sec.b1, sec.x1)),
                                 Mul(sec.b2, sec.x2)),
                             Mul(sec.a1, sec.y1)),
                         Mul(sec.a2, sec.y2)),
              !.b0 = sample]

\* one biquad: y and the shifted delay memory
Biquad(sec, sample) ==
  [sec EXCEPT !.x2 = sec.x1, !.x1 = sample, !.y2 = sec.y1,
              !.y1 = Sub(Sub(Add(Add(Mul(sec.b0, sample), Mul(sec.b1, sec.x1)),
                                 Mul(sec.b2, sec.x2)),
                             Mul(sec.a1, sec.y1)),
                         Mul(sec.a2, sec.y2))]

\* for (const sec of this.sections) {...}: done are the sections already
\* run for this sample, rest those still to run, fed with sample
RECURSIVE Cascade(_, _, _)
Cascade(done, rest, sample) ==
  IF rest = <<>> THEN [sections |-> done, sample |-> sample]
  ELSE Only({Cascade(Append(done, sec), Tail(rest), sec.y1) :
               sec \in {Biquad(Head(rest), sample)}})

\* the body of the sample loop for input[i] = x
StepSample(p, x) ==
  Only({Only({[p |-> [q EXCEPT !.sections = c.sections], out |-> c.sample] :
                c \in {Cascade(<<>>, q.sections \o <<>>, x)}}) :
          q \in {InterpStep(p)}})

\* every value of the processor is in the exact range (a BIG anywhere in a
\* sample's computation makes the section's y BIG, and it stays BIG)
InRange(p) == \A s \in 1..Len(p.sections) : ~IsBig(p.sections[s].y1)

\* the sample loop for (let i = lo; i <= hi; i++): the processor after it and
\* the sections and the output after each sample.  The loop is unrolled by
\* halving, the samples run in order; it is cut short once a value has left
\* the exact range.
RECURSIVE RunBlock(_, _, _, _)
RunBlock(p, input, lo, hi) ==
  IF lo > hi THEN [p |-> p, trace |-> <<>>]
  ELSE IF lo = hi
  THEN Only({[p |-> r.p,
              trace |-> <<[sections |-> r.p.sections,
                           interpolating |-> r.p.interpolating,
                           in |-> input[lo], out |-> r.out]>>] :
               r \in {StepSample(p, input[lo])}})
  ELSE Only({IF ~InRange(left.p) THEN left
             ELSE Only({[p |-> right.p, trace |-> left.trace \o right.trace] :
                          right \in {RunBlock(left.p, input, (lo + hi) \div 2 + 1, hi)}}) :
               left \in {RunBlock(p, input, lo, (lo + hi) \div 2)}})

\* inputs[0] and outputs[0] are lists of channels: <<>> has no channel 0
NoChannel == <<>>
Channel(block) == <<block>>
\* a sample slot of an output buffer that process() has not written
Fresh == <<0, -2>>
Unwritten(n) == [i \in 1..n |-> Fresh]

\* interpolating with oldCoeffs/newCoeffs null or too short: o.b0 of undefined
Throws(p) ==
  /\ p.interpolating
  /\ \/ p.oldCoeffs = Null
     \/ p.newCoeffs = Null
     \/ Len(Val(p.oldCoeffs)) < Len(p.sections)
     \/ Len(Val(p.newCoeffs)) < Len(p.sections)

\* output.set(input) that copies nothing
OutputSetNothing(output, input) == output

\* output.set(input)
OutputSet(output, input) ==
  [i \in 1..Len(output) |-> IF i <= Len(input) THEN input[i] ELSE output[i]]

\* a process() that looks at the port after the first sample of a block and
\* applies the oldest message waiting there
ProcessPolls(p, ins, outs) ==
  IF ins = NoChannel \/ outs = NoChannel
  THEN [p |-> p, outs |-> outs, ret |-> "true", trace |-> <<>>]
  ELSE IF Len(p.sections) = 0
  THEN [p |-> p, outs |-> Channel(OutputSet(outs[1], ins[1])), ret |-> "true",
        trace |-> <<>>]
  ELSE IF Throws(p)
  THEN [p |-> p, outs |-> outs, ret |-> "TypeError", trace |-> <<>>]
  ELSE IF port = <<>> \/ Len(ins[1]) < 2
  THEN Only({[p |-> r.p,
              outs |-> Channel([i \in 1..Len(r.trace) |-> r.trace[i].out]),
              ret |-> "true",
              trace |-> r.trace] :
               r \in {RunBlock(p, ins[1], 1, Len(ins[1]))}})
  ELSE Only({ Only({[p |-> r.p,
                     outs |-> Channel([i \in 1..Len(first.trace \o r.trace) |->
                                         (first.trace \o r.trace)[i].out]),
                     ret |-> "true",
                     trace |-> first.trace \o r.trace] :
                      r \in {RunBlock(UpdateCoefficients(first.p, Head(port).sos),
                                      ins[1], 2, Len(ins[1]))}}) :
               first \in {RunBlock(p, ins[1], 1, 1)}})

\* process(inputs, outputs) with input = inputs[0]?.[0], output = outputs[0]?.[0];
\* ins and outs are the channel lists inputs[0] and outputs[0]
Process(p, ins, outs) ==
  IF ins = NoChannel \/ outs = NoChannel
  THEN [p |-> p, outs |-> outs, ret |-> "true", trace |-> <<>>]
  ELSE IF Len(p.sections) = 0
  THEN [p |-> p, outs |-> Channel(OutputSet(outs[1], ins[1])), ret |-> "true",
        trace |-> <<>>]
  ELSE IF Throws(p)
  THEN [p |-> p, outs |-> outs, ret |-> "TypeError", trace |-> <<>>]
  ELSE Only({[p |-> r.p,
              outs |-> Channel([i \in 1..Len(r.trace) |-> r.trace[i].out]),
              ret |-> "true",
              trace |-> r.trace] :
               r \in {RunBlock(p, ins[1], 1, Len(ins[1]))}})

(***************************************************************************)
(* The inputs of the model.                                                *)
(***************************************************************************)
Ints(seq) == [i \in 1..Len(seq) |-> N(seq[i])]
Sec(b, a) == [b |-> Ints(b), a |-> Ints(a)]

\* designs of no, one and two sections; the two sections of Y0 and Y1 have
\* the same feedback coefficients
D0 == <<>>
X0 == <<Sec(<<0, 1, 0>>, <<1, -1, 0>>)>>
X1 == <<Sec(<<1, 1>>, <<1>>)>>
X2 == <<Sec(<<2, 1, 0>>, <<1, 1, 0>>)>>
Y0 == <<Sec(<<1, 1, 0>>, <<1, 0, 0>>), Sec(<<1, 0, 0>>, <<1, -1, 0>>)>>
Y1 == <<Sec(<<0, 1, 0>>, <<1, 0, 0>>), Sec(<<2, 1, 0>>, <<1, -1, 0>>)>>
Library == {D0, X0, X1, X2, Y0, Y1}

CoeffMsg(d) == [type |-> "coefficients", sos |-> d]
Messages == {CoeffMsg(d) : d \in Library} \cup {[type |-> "other", sos |-> <<>>]}

BlockLen == 128
ZeroBlock(n) == [i \in 1..n |-> Zero]
Impulse(n) == [i \in 1..n |-> IF i = 1 THEN One ELSE Zero]
\* the input blocks: a long block of silence, and one-sample blocks
Blocks == {ZeroBlock(BlockLen), ZeroBlock(1), Impulse(1)}
IsImpulse(ins) == ins # NoChannel /\ ins[1][1] # Zero

Proc == [sections |-> sections, oldCoeffs |-> oldCoeffs, newCoeffs |-> newCoeffs,
         interpPos |-> interpPos, interpolating |-> interpolating]

(***************************************************************************)
(* History.  upd is the last update applied: the coefficients the sections *)
(* held (from) and the incoming ones (to), whether an interpolation was in *)
(* flight and toward which target, the value of fed.n then (at), and the   *)
(* number n of samples presented since.  fed is the design installed when  *)
(* the section count last changed, the number of same-count updates since, *)
(* the number n of samples presented since and the positions of those that *)
(* were not 0.  burst is the processor as it was when the port was last    *)
(* empty (Null once a process() call or a delivery has come between the    *)
(* posts), the number of messages posted since and the latest of them.     *)
(***************************************************************************)
NoUpdate == [applied |-> FALSE, from |-> <<>>, to |-> <<>>, interp |-> FALSE,
             target |-> Null, at |-> 0, n |-> 0]
NotFed == [design |-> <<>>, updates |-> 0, n |-> 0, ones |-> {}]
NoBurst == [before |-> Null, size |-> 0, latest |-> <<>>, delivered |-> 0]

Applied(p, sos) ==
  [applied |-> TRUE, from |-> AllCoeffs(p.sections), to |-> Incoming(sos),
   interp |-> p.interpolating, target |-> p.newCoeffs,
   at |-> IF Len(sos) # Len(p.sections) THEN 0 ELSE fed.n, n |-> 0]

FedUpdate(p, sos) ==
  IF Len(sos) # Len(p.sections)
  THEN [design |-> Incoming(sos), updates |-> 0, n |-> 0, ones |-> {}]
  ELSE [fed EXCEPT !.updates = @ + 1]

FedBlock(input) ==
  [fed EXCEPT !.n = @ + Len(input),
              !.ones = @ \cup {fed.n + i - 1 : i \in {j \in 1..Len(input) : input[j] # Zero}}]

(***************************************************************************)
(* Bounds and inputs of the filter design model: the orders, the families  *)
(* (one of them not a family designFilter knows), the ripples in dB, the   *)
(* cutoffs in Hz, the sample rates and the grid sizes of the calls.  The   *)
(* grids of the App (2048 points) and of the engine (1024, the default)    *)
(* are cut to PlotPoints and DefaultPoints entries.                        *)
(***************************************************************************)
MaxOrder == 9
MaxPanelOrder == 2
MaxPoints == 3
MaxDesigns == 3
PlotPoints == 2
DefaultPoints == 1
Ripples == {1, 3}
Rates == {16000, 44100, 48000}
PanelCutoffs == {1000, 12000, 22050}
FamilyNames == {"butterworth", "chebyshev", "bessel", "elliptic"}

(***************************************************************************)
(* Filter design (filterDesign.ts, analogPrototypes.ts).  designFilter     *)
(* computes in IEEE doubles; the model computes in exact rationals n / d   *)
(* in lowest terms, <<n, d>> with d > 0.  QCap bounds |n| and d: a result  *)
(* beyond it is QBIG, outside the range the model follows, and every       *)
(* operation on QBIG is QBIG.  An operand is bound once (Only, or a        *)
(* one-element set) before it is used.                                     *)
(***************************************************************************)
QBits == 30
QCap == 2 ^ QBits
QBIG == <<0, 0>>
IsQBig(x) == x[2] = 0

RECURSIVE Gcd(_, _)
Gcd(a, b) == IF b = 0 THEN a ELSE Gcd(b, a % b)

\* n / d, d # 0, in lowest terms with a positive denominator
Q(n, d) ==
  IF d = 0 THEN QBIG
  ELSE Only({ IF g = 0 THEN <<0, 1>>
              ELSE IF d < 0 THEN <<(0 - n) \div g, (0 - d) \div g>>
              ELSE <<n \div g, d \div g>> : g \in {Gcd(Abs(n), Abs(d))} })

QInt(n) == <<n, 1>>
QZero == <<0, 1>>
QOne == <<1, 1>>

\* a * b when it stays within QCap, else -1 (a, b >= 0)
SafeMul(a, b) ==
  IF a < 0 \/ b < 0 THEN -1
  ELSE IF a = 0 \/ b = 0 THEN 0
  ELSE IF a > QCap \div b THEN -1 ELSE a * b

QNeg(x) == IF IsQBig(x) THEN QBIG ELSE <<0 - x[1], x[2]>>
QAbs(x) == IF IsQBig(x) THEN QBIG ELSE <<Abs(x[1]), x[2]>>
QSign(x) == IF x[1] > 0 THEN 1 ELSE IF x[1] < 0 THEN -1 ELSE 0

QMulNum(x, y) ==
  Only({ Only({ IF p[1] < 0 \/ p[2] < 0 THEN QBIG
                ELSE <<QSign(x) * QSign(y) * p[1], p[2]>>
                : p \in {<<SafeMul(Abs(x[1]) \div g[1], Abs(y[1]) \div g[2]),
                           SafeMul(x[2] \div g[2], y[2] \div g[1])>>} })
         : g \in {<<Gcd(Abs(x[1]), y[2]), Gcd(Abs(y[1]), x[2])>>} })

QMul(x, y) == IF IsQBig(x) \/ IsQBig(y) THEN QBIG ELSE QMulNum(x, y)

QInv(x) ==
  IF IsQBig(x) \/ x[1] = 0 THEN QBIG
  ELSE IF x[1] < 0 THEN <<0 - x[2], 0 - x[1]>> ELSE <<x[2], x[1]>>

\* x / y; a division by zero leaves the range (Infinity or NaN in the program)
QDiv(x, y) == QMul(x, QInv(y))

QAddNum(x, y) ==
  Only({ Only({ IF t[1] < 0 \/ t[2] < 0 \/ t[3] < 0 THEN QBIG
                ELSE IF Abs(QSign(x) * t[1] + QSign(y) * t[2]) > QCap THEN QBIG
                ELSE Q(QSign(x) * t[1] + QSign(y) * t[2], t[3])
                : t \in {<<SafeMul(Abs(x[1]), y[2] \div g),
                           SafeMul(Abs(y[1]), x[2] \div g),
                           SafeMul(x[2] \div g, y[2])>>} })
         : g \in {Gcd(x[2], y[2])} })

QAdd(x, y) == IF IsQBig(x) \/ IsQBig(y) THEN QBIG ELSE QAddNum(x, y)
QSub(x, y) == QAdd(x, QNeg(y))

\* x < y on values in range, by the sign of x - y
QLess(x, y) == Only({ (~IsQBig(d)) /\ d[1] < 0 : d \in {QSub(x, y)} })

\* an array built entry by entry, as the sequence of its entries
Array(f) == f \o <<>>

\* a complex number {re, im}
Cx(re, im) == [re |-> re, im |-> im]
CxInRange(z) == ~IsQBig(z.re) /\ ~IsQBig(z.im)
\* re^2 + im^2, the square of |z|
Mag2(z) == QAdd(QMul(z.re, z.re), QMul(z.im, z.im))

(***************************************************************************)
(* Math.sin, Math.cos and Math.tan of pi * r for a rational r, to          *)
(* Bhaskara's rational approximation 16 x (1 - x) / (5 - 4 x (1 - x)) of   *)
(* sin(pi x) on [0, 1]: within 0.002 of the sine, of the sine's sign,      *)
(* exact at the multiples of pi / 6 that are not odd multiples of pi / 3,  *)
(* and with the sine's symmetries, so that conjugate poles come out as     *)
(* exact conjugates.  tan(pi / 2), about 1.6e16 in doubles, is QBIG.       *)
(***************************************************************************)
\* the largest denominator of an angle / pi the approximation is computed for
TrigCap == 4096

\* r reduced to [0, 2)
Mod2(r) == IF IsQBig(r) THEN QBIG ELSE Q(r[1] % (2 * r[2]), r[2])

\* 16 x (1 - x) / (5 - 4 x (1 - x)) for x = n / d in [0, 1], over d^2
Bhaskara(x) ==
  IF IsQBig(x) \/ x[2] > TrigCap THEN QBIG
  ELSE Only({ Q(16 * p, 5 * x[2] * x[2] - 4 * p) : p \in {x[1] * (x[2] - x[1])} })

SinPi(r) ==
  Only({ IF QLess(QOne, x) THEN QNeg(Bhaskara(QSub(x, QOne))) ELSE Bhaskara(x)
         : x \in {Mod2(r)} })

CosPi(r) == SinPi(QAdd(r, Q(1, 2)))
TanPi(r) == QDiv(SinPi(r), CosPi(r))

(***************************************************************************)
(* Math.sinh and Math.cosh to their Taylor polynomials x + x^3 / 6 and     *)
(* 1 + x^2 / 2: positive for x > 0, and of the right size for the mu of    *)
(* the designs of the model (mu <= 10 / 7).                                *)
(***************************************************************************)
Sinh(x) == QAdd(x, QDiv(QMul(x, QMul(x, x)), QInt(6)))
Cosh(x) == QAdd(QOne, QDiv(QMul(x, x), QInt(2)))

\* Math.asinh(1 / Math.sqrt(Math.pow(10, rippleDb / 10) - 1)) for the ripples
\* of the model, in dB: 1.4280 for 1 dB, 0.8831 for 3 dB
AsinhInvEps(rippleDb) == IF rippleDb = 1 THEN Q(10, 7) ELSE Q(7, 8)

\* butterworthPoles with the angle pi (2k + 1) / (2 order): the right half plane too
butterworthPolesRight(order) ==
  Array([i \in 1..order |->
           Only({ Cx(CosPi(angle), SinPi(angle))
                  : angle \in {Q(2 * (i - 1) + 1, 2 * order)} })])

\* butterworthPoles(order)
butterworthPoles(order) ==
  Array([i \in 1..order |->
           Only({ Cx(CosPi(angle), SinPi(angle))
                  : angle \in {Q(2 * (i - 1) + order + 1, 2 * order)} })])

\* chebyshevPoles(order, rippleDb).poles; getAnalogPoles drops the scale
chebyshevPoles(order, rippleDb) ==
  Only({ Array([i \in 1..order |->
                  Only({ Cx(QNeg(QMul(h[1], SinPi(theta))), QMul(h[2], CosPi(theta)))
                         : theta \in {Q(2 * (i - 1) + 1, 2 * order)} })])
         : h \in { <<Sinh(mu), Cosh(mu)>>
                   : mu \in {QMul(Q(1, order), AsinhInvEps(rippleDb))} } })

\* Math.acosh(1 / eps) for the ripples of the model: 1.2958 for 1 dB, 0.0691
\* for 3 dB
AcoshInvEps(rippleDb) == IF rippleDb = 1 THEN Q(13, 10) ELSE Q(7, 100)

\* chebyshevPoles(order, rippleDb).passbandToDb3Scale
passbandToDb3Scale(order, rippleDb) ==
  Cosh(QMul(Q(1, order), AcoshInvEps(rippleDb)))

\* a number of the table DATA, written there with four decimals
Dec(n) == Q(n, 10000)
Pole(re, im) == Cx(Dec(re), Dec(im))

\* the table DATA of besselPoles, in ten-thousandths
DATA ==
  [n \in 1..8 |->
     CASE n = 1 -> [poles |-> <<Pole(-10000, 0)>>, omega3dB |-> Dec(10000)]
       [] n = 2 -> [poles |-> <<Pole(-11016, 6368), Pole(-11016, -6368)>>,
                    omega3dB |-> Dec(13617)]
       [] n = 3 -> [poles |-> <<Pole(-10474, 9992), Pole(-10474, -9992),
                                Pole(-13227, 0)>>,
                    omega3dB |-> Dec(17557)]
       [] n = 4 -> [poles |-> <<Pole(-9953, 12571), Pole(-9953, -12571),
                                Pole(-13707, 4103), Pole(-13707, -4103)>>,
                    omega3dB |-> Dec(21139)]
       [] n = 5 -> [poles |-> <<Pole(-9576, 14711), Pole(-9576, -14711),
                                Pole(-13810, 7179), Pole(-13810, -7179),
                                Pole(-13851, 0)>>,
                    omega3dB |-> Dec(24274)]
       [] n = 6 -> [poles |-> <<Pole(-9318, 16617), Pole(-9318, -16617),
                                Pole(-13226, 9715), Pole(-13226, -9715),
                                Pole(-13836, 1073), Pole(-13836, -1073)>>,
                    omega3dB |-> Dec(27034)]
       [] n = 7 -> [poles |-> <<Pole(-9104, 18375), Pole(-9104, -18375),
                                Pole(-12629, 11923), Pole(-12629, -11923),
                                Pole(-13780, 3213), Pole(-13780, -3213),
                                Pole(-13797, 0)>>,
                    omega3dB |-> Dec(29517)]
       [] n = 8 -> [poles |-> <<Pole(-8955, 20044), Pole(-8955, -20044),
                                Pole(-12062, 13926), Pole(-12062, -13926),
                                Pole(-13683, 5287), Pole(-13683, -5287),
                                Pole(-13780, 569), Pole(-13780, -569)>>,
                    omega3dB |-> Dec(31796)]]

\* entry.poles.map((p) => ({re: p.re / scale, im: p.im / scale}))
Scaled(entry) ==
  Array([i \in 1..Len(entry.poles) |->
           Cx(QDiv(entry.poles[i].re, entry.omega3dB),
              QDiv(entry.poles[i].im, entry.omega3dB))])

\* besselPoles falling back to the nearest order of the table
besselPolesNearest(order) ==
  IF order \notin DOMAIN DATA THEN Scaled(DATA[IF order < 1 THEN 1 ELSE 8])
  ELSE Scaled(DATA[order])

\* besselPoles scaling the entry of the table in place: scaled once more by
\* every call after the first
besselPolesInPlace(order) ==
  IF order \notin DOMAIN DATA THEN DATA[2].poles
  ELSE IF nDesigns = 0 THEN Scaled(DATA[order])
  ELSE Scaled([DATA[order] EXCEPT !.poles = Scaled(DATA[order])])

\* besselPoles(order): an order DATA has no entry for returns DATA[2].poles
besselPoles(order) ==
  IF order \notin DOMAIN DATA THEN DATA[2].poles ELSE Scaled(DATA[order])

\* getAnalogPoles with a default branch that returns no poles
getAnalogPolesNone(params) ==
  CASE params.family = "butterworth" -> butterworthPoles(params.order)
    [] params.family = "chebyshev" -> chebyshevPoles(params.order, params.rippleDb)
    [] params.family = "bessel" -> besselPoles(params.order)
    [] OTHER -> <<>>

\* getAnalogPoles(params)
getAnalogPoles(params) ==
  CASE params.family = "butterworth" -> butterworthPoles(params.order)
    [] params.family = "chebyshev" -> chebyshevPoles(params.order, params.rippleDb)
    [] params.family = "bessel" -> besselPoles(params.order)
    [] OTHER -> butterworthPoles(params.order)

(***************************************************************************)
(* |x| < 1e-10.  A rational of the model that is not zero has a            *)
(* denominator of at most QCap < 1e10, so it is at least 1e-10 in size.    *)
(***************************************************************************)
Tiny(x) == ~IsQBig(x) /\ x[1] = 0

\* the search for the partner without the test of used[j]
PartnerUsedAgain(poles, i, used) ==
  { j \in (i + 1)..Len(poles) :
      /\ Tiny(QSub(poles[i].re, poles[j].re))
      /\ Tiny(QAdd(poles[i].im, poles[j].im))
      /\ \A k \in (i + 1)..(j - 1) :
           \/ ~Tiny(QSub(poles[i].re, poles[k].re))
           \/ ~Tiny(QAdd(poles[i].im, poles[k].im)) }

\* the first j > i, not used, that pairConjugatePoles takes as the partner of i
Partner(poles, i, used) ==
  { j \in (i + 1)..Len(poles) :
      /\ j \notin used
      /\ Tiny(QSub(poles[i].re, poles[j].re))
      /\ Tiny(QAdd(poles[i].im, poles[j].im))
      /\ \A k \in (i + 1)..(j - 1) :
           \/ k \in used
           \/ ~Tiny(QSub(poles[i].re, poles[k].re))
           \/ ~Tiny(QAdd(poles[i].im, poles[k].im)) }

\* the loop of pairConjugatePoles from index i on
RECURSIVE PairFrom(_, _, _, _)
PairFrom(poles, i, used, secs) ==
  IF i > Len(poles) THEN secs
  ELSE IF i \in used THEN PairFrom(poles, i + 1, used, secs)
  ELSE IF Tiny(poles[i].im)
  THEN PairFrom(poles, i + 1, used \cup {i},
                Append(secs, <<Cx(poles[i].re, QZero)>>))
  ELSE Only({ IF J = {}
              THEN PairFrom(poles, i + 1, used \cup {i}, Append(secs, <<poles[i]>>))
              ELSE PairFrom(poles, i + 1, used \cup {i} \cup J,
                            Append(secs, <<poles[i], poles[Only(J)]>>))
              : J \in {Partner(poles, i, used)} })

\* pairConjugatePoles without the search for the partner: every pole on its own
pairConjugatePolesSingles(poles) == Array([i \in 1..Len(poles) |-> <<poles[i]>>])

\* pairConjugatePoles(poles)
pairConjugatePoles(poles) == PairFrom(poles, 1, {}, <<>>)

\* bilinear(s, sampleRate), line by line
BilinearOf(n, d) ==
  Only({ Cx(QDiv(QAdd(QMul(n.re, d.re), QMul(n.im, d.im)), dMag2),
            QDiv(QSub(QMul(n.im, d.re), QMul(n.re, d.im)), dMag2))
         : dMag2 \in {QAdd(QMul(d.re, d.re), QMul(d.im, d.im))} })

bilinear(s, sampleRate) ==
  Only({ BilinearOf(Cx(QAdd(QOne, QMul(s.re, halfT)), QMul(s.im, halfT)),
                    Cx(QSub(QOne, QMul(s.re, halfT)), QNeg(QMul(s.im, halfT))))
         : halfT \in {QDiv(QDiv(QOne, QInt(sampleRate)), QInt(2))} })

\* Math.tan(omegaD / 2) for omegaD = 2 pi cutoffFrequency / sampleRate
omegaAOf(params, sampleRate) ==
  QMul(QInt(2 * sampleRate), TanPi(QDiv(params.cutoffFrequency, QInt(sampleRate))))

\* zeroZ with the zero of the lowpass for every response
zeroZOfLowpass(params) == -1

zeroZOf(params) == IF params.type = "lowpass" THEN -1 ELSE 1
evalAtOf(params) == IF params.type = "lowpass" THEN 1 ELSE -1

\* a section {b, a} of the result
Section(b, a) == [b |-> b, a |-> a]

\* the first-order branch of buildSOS for the pole zp
FirstOrder(zp, zeroZ, evalAt) ==
  Only({ Only({ Section(<<g, QMul(g, QInt(0 - zeroZ)), QZero>>, <<QOne, a1, QZero>>)
                : g \in {QDiv(QAdd(QOne, QMul(a1, QInt(evalAt))),
                              QInt(1 + (0 - zeroZ) * evalAt))} })
         : a1 \in {QNeg(zp.re)} })

\* the second-order branch without the gain normalization: g = 1
SecondOrderNoGain(zp1, zp2, zeroZ, evalAt) ==
  Section(<<QOne, QInt(0 - 2 * zeroZ), QInt(zeroZ * zeroZ)>>,
          <<QOne, QNeg(QAdd(zp1.re, zp2.re)),
            QSub(QMul(zp1.re, zp2.re), QMul(zp1.im, zp2.im))>>)

\* the second-order branch of buildSOS for the poles zp1, zp2
SecondOrder(zp1, zp2, zeroZ, evalAt) ==
  Only({ Only({ Section(<<g, QMul(g, QInt(0 - 2 * zeroZ)), QMul(g, QInt(zeroZ * zeroZ))>>,
                        <<QOne, c[1], c[2]>>)
                : g \in {QDiv(QAdd(QAdd(QOne, QMul(c[1], QInt(evalAt))),
                                   QMul(c[2], QInt(evalAt * evalAt))),
                              QInt(1 + (0 - 2 * zeroZ) * evalAt
                                     + zeroZ * zeroZ * evalAt * evalAt))} })
         : c \in {<<QNeg(QAdd(zp1.re, zp2.re)),
                    QSub(QMul(zp1.re, zp2.re), QMul(zp1.im, zp2.im))>>} })

\* omegaA * pole, the pole scaled to the cutoff
ScalePole(omegaA, p) == Cx(QMul(omegaA, p.re), QMul(omegaA, p.im))

\* the loop of buildSOS over the analog sections, from section k on
RECURSIVE BuildFrom(_, _, _, _, _, _)
BuildFrom(secs, k, omegaA, params, sampleRate, acc) ==
  IF k > Len(secs) THEN acc
  ELSE IF Len(secs[k]) = 1
  THEN Only({ BuildFrom(secs, k + 1, omegaA, params, sampleRate,
                [sos |-> Append(acc.sos, FirstOrder(zp, zeroZOf(params), evalAtOf(params))),
                 zPoles |-> Append(acc.zPoles, zp),
                 zZeros |-> Append(acc.zZeros, Cx(QInt(zeroZOf(params)), QZero))])
              : zp \in {bilinear(Cx(QMul(omegaA, secs[k][1].re), QZero), sampleRate)} })
  ELSE Only({ BuildFrom(secs, k + 1, omegaA, params, sampleRate,
                [sos |-> Append(acc.sos,
                                SecondOrder(zp[1], zp[2], zeroZOf(params), evalAtOf(params))),
                 zPoles |-> acc.zPoles \o zp,
                 zZeros |-> acc.zZeros \o <<Cx(QInt(zeroZOf(params)), QZero),
                                            Cx(QInt(zeroZOf(params)), QZero)>>])
              : zp \in {<<bilinear(ScalePole(omegaA, secs[k][1]), sampleRate),
                          bilinear(ScalePole(omegaA, secs[k][2]), sampleRate)>>} })

\* buildSOS(params, sampleRate, analogPoles)
buildSOS(params, sampleRate, analogPoles) ==
  Only({ BuildFrom(pairConjugatePoles(analogPoles), 1, omegaA, params, sampleRate,
                   [sos |-> <<>>, zPoles |-> <<>>, zZeros |-> <<>>])
         : omegaA \in {omegaAOf(params, sampleRate)} })

\* cos and sin of omega and of 2 omega, for omega = pi * r
Phasors(r) == <<CosPi(r), SinPi(r), CosPi(QMul(QInt(2), r)), SinPi(QMul(QInt(2), r))>>

\* the response of the section s at omega, num / den, w the phasors of omega
SectionResponse(s, w) ==
  BilinearOf(Cx(QAdd(QAdd(s.b[1], QMul(s.b[2], w[1])), QMul(s.b[3], w[3])),
                QSub(QNeg(QMul(s.b[2], w[2])), QMul(s.b[3], w[4]))),
             Cx(QAdd(QAdd(QOne, QMul(s.a[2], w[1])), QMul(s.a[3], w[3])),
                QSub(QNeg(QMul(s.a[2], w[2])), QMul(s.a[3], w[4]))))

\* total = total * h over the sections from k on
RECURSIVE TotalFrom(_, _, _, _)
TotalFrom(sos, k, w, total) ==
  IF k > Len(sos) THEN total
  ELSE Only({ TotalFrom(sos, k + 1, w,
                        Cx(QSub(QMul(total.re, h.re), QMul(total.im, h.im)),
                           QAdd(QMul(total.re, h.im), QMul(total.im, h.re))))
              : h \in {SectionResponse(sos[k], w)} })

\* the response of the cascade at omega = pi * r
Response(sos, r) ==
  Only({ TotalFrom(sos, 1, w, Cx(QOne, QZero)) : w \in {Phasors(r)} })

(***************************************************************************)
(* evalSOS(sos, sampleRate, numPoints).  Entry i + 1 is the program's      *)
(* entry i.  frequencies are in Hz.  magnitudeDb[i] is kept as the squared *)
(* magnitude m2 = totalRe^2 + totalIm^2 it is the 10 log10 of, so that     *)
(* 0 dB is m2 = 1; phase[i] as the total it is the atan2 of.               *)
(***************************************************************************)
\* f of entry i, and omega / pi = 2 f / sampleRate
GridFrequency(i, sampleRate, numPoints) == QMul(Q(i - 1, numPoints), Q(sampleRate, 2))
GridAngle(f, sampleRate) == QDiv(QMul(QInt(2), f), QInt(sampleRate))

evalSOS(sos, sampleRate, numPoints) ==
  Only({ Only({ [frequencies |-> frequencies,
                 magnitudeDb |-> Array([i \in 1..numPoints |-> Mag2(total[i])]),
                 phase |-> total]
                : total \in {Array([i \in 1..numPoints |->
                                Response(sos, GridAngle(frequencies[i], sampleRate))])} })
         : frequencies \in {Array([i \in 1..numPoints |->
                                      GridFrequency(i, sampleRate, numPoints)])} })

\* 0 dB in magnitudeDb
ZeroDb == QOne

\* designFilter(params, sampleRate, numFreqPoints)
designFilter(params, sampleRate, numFreqPoints) ==
  Only({ Only({ [poles |-> built.zPoles, zeros |-> built.zZeros, sos |-> built.sos,
                 frequencies |-> resp.frequencies,
                 magnitudeDb |-> resp.magnitudeDb,
                 phase |-> resp.phase]
                : resp \in {evalSOS(built.sos, sampleRate, numFreqPoints)} })
         : built \in {buildSOS(params, sampleRate, getAnalogPoles(params))} })

(***************************************************************************)
(* The callers of designFilter: the App component, which designs the three *)
(* families for its plots at each render that follows a change of          *)
(* filterParams or of sampleRate, and the engine, which designs the filter *)
(* it posts to the worklet.  calls holds the designFilter calls of the     *)
(* latest step, in the order they were made.                               *)
(***************************************************************************)
FAMILIES == <<"butterworth", "chebyshev", "bessel">>

Hz(n) == QInt(n)

DEFAULT_FILTER ==
  [family |-> "butterworth", type |-> "lowpass", order |-> 4,
   cutoffFrequency |-> Hz(1000), rippleDb |-> 1]

\* engineRef.current?.sampleRate ?? 44100, with get sampleRate() of the engine
DefaultRate == 44100
SampleRateOf(c) == IF c = Null THEN DefaultRate ELSE Val(c)

\* the inputs of a designFilter call
In(c) == <<c.params, c.sampleRate, c.numPoints>>

\* one designFilter call and what it returned
Call(site, params, rate, numPoints) ==
  [site |-> site, params |-> params, sampleRate |-> rate, numPoints |-> numPoints,
   result |-> designFilter(params, rate, numPoints)]

\* FAMILIES.map((family) => designFilter({...filterParams, family}, sampleRate, 2048))
AllDesigns(params, rate) ==
  Array([i \in 1..Len(FAMILIES) |->
           Call("allDesigns", [params EXCEPT !.family = FAMILIES[i]], rate, PlotPoints)])

QMin(x, y) == IF QLess(y, x) THEN y ELSE x

\* nyquist * 0.95 for nyquist = sampleRate / 2
ClampLimit(rate) == QMul(Q(rate, 2), Q(95, 100))

\* sendCoefficients(params): the design of the clamped params, default grid
SendCoefficients(params, rate) ==
  <<Call("sendCoefficients",
         [params EXCEPT !.cutoffFrequency = QMin(@, ClampLimit(rate))],
         rate, DefaultPoints)>>

\* the values one control of the panel can change filterParams to
PanelChanges(params, rate) ==
  ( {[params EXCEPT !.family = FAMILIES[i]] : i \in 1..Len(FAMILIES)}
    \cup {[params EXCEPT !.type = t] : t \in {"lowpass", "highpass"}}
    \cup {[params EXCEPT !.order = n] : n \in 1..MaxPanelOrder}
    \cup {[params EXCEPT !.cutoffFrequency = Hz(f)] :
            f \in {g \in PanelCutoffs : 20 <= g /\ 2 * g <= rate /\ (g - 20) % 10 = 0}}
    \cup {[params EXCEPT !.rippleDb = r] : r \in Ripples} ) \ {params}

\* the parameters designFilter is called with from outside the App
Params(family, type, order, cutoff, ripple) ==
  [family |-> family, type |-> type, order |-> order,
   cutoffFrequency |-> Hz(cutoff), rippleDb |-> ripple]

ParamSet ==
  { Params(family, type, order, cutoff, ripple) :
      family \in FamilyNames, type \in {"lowpass", "highpass"},
      order \in 1..MaxOrder, cutoff \in PanelCutoffs, ripple \in Ripples }

\* the inputs whose results are remembered from call to call
Tracked ==
  { <<Params("bessel", "lowpass", order, 12000, 1), 48000, 1>> : order \in {2, MaxOrder} }

\* seen with the tracked calls among new: a result not yet seen for its input
\* is added, with the number of the step it was first seen at
Remember(seen, new, at) ==
  seen \cup { [in |-> In(new[i]), out |-> new[i].result, at |-> at] :
                i \in { j \in 1..Len(new) :
                          /\ In(new[j]) \in Tracked
                          /\ \A e \in seen : e.in # In(new[j]) \/ e.out # new[j].result } }

(***************************************************************************)
(* pairConjugatePoles called on its own, with poles that need not be the   *)
(* poles of a prototype: each pole is one of PolePool.                     *)
(***************************************************************************)
MaxPoles == 4
PolePool == {Cx(QInt(re), QInt(im)) : re \in {-2, -1}, im \in {-1, 0, 1}}
PoleLists == UNION {[1..n -> PolePool] : n \in 0..MaxPoles}

\* the loop of pairConjugatePoles from index i on, in indices: the section
\* pushed for poles[i] is <<i>> or, with the partner j, <<i, j>>
RECURSIVE SlotsFrom(_, _, _, _)
SlotsFrom(poles, i, used, secs) ==
  IF i > Len(poles) THEN secs
  ELSE IF i \in used THEN SlotsFrom(poles, i + 1, used, secs)
  ELSE IF Tiny(poles[i].im)
  THEN SlotsFrom(poles, i + 1, used \cup {i}, Append(secs, <<i>>))
  ELSE Only({ IF J = {}
              THEN SlotsFrom(poles, i + 1, used \cup {i}, Append(secs, <<i>>))
              ELSE SlotsFrom(poles, i + 1, used \cup {i} \cup J,
                             Append(secs, <<i, Only(J)>>))
              : J \in {Partner(poles, i, used)} })

NotPaired == [called |-> FALSE, poles |-> <<>>, sections |-> <<>>, slots |-> <<>>]

(***************************************************************************)
(* The AudioEngine.  ctx is its AudioContext (Null before init()); engine  *)
(* holds what else its methods read and write:                             *)
(*   nodes      init() has passed its await and created preAnalyser,       *)
(*              postAnalyser, masterGain, workletNode and noiseBuffer      *)
(*   sourceNode sourceNode is not null                                     *)
(*   connected  the connection preAnalyser -> workletNode exists           *)
(*   output     the connection workletNode -> postAnalyser exists          *)
(*   isRunning  the field isRunning                                        *)
(*   closed     ctx.close() has been called                                *)
(* Of the Web Audio API the methods rely on: connect() of a connection     *)
(* that exists does nothing, disconnect() without an argument never        *)
(* throws, disconnect(destination) throws InvalidAccessError when there is *)
(* no connection to destination, and reading a property of null throws     *)
(* TypeError.  A method returns the engine it leaves, whether it threw,    *)
(* and the params of the designs it posted.                                *)
(***************************************************************************)
NewEngine ==
  [nodes |-> FALSE, sourceNode |-> FALSE, connected |-> FALSE, output |-> FALSE,
   isRunning |-> FALSE, closed |-> FALSE]
NoCall == [op |-> "none", threw |-> FALSE, posts |-> <<>>]
Returned(e, posts) == [e |-> e, threw |-> FALSE, posts |-> posts]
Threw(e, posts) == [e |-> e, threw |-> TRUE, posts |-> posts]

\* init() up to its await: if (this.ctx) return; this.ctx = new AudioContext()
\* init() after the await: the nodes, workletNode.connect(postAnalyser)
InitNodes(e) == [e EXCEPT !.nodes = TRUE, !.output = TRUE]

\* stopSource()
stopSource(e) == IF e.sourceNode THEN [e EXCEPT !.sourceNode = FALSE] ELSE e

\* createSource(params)
createSource(c, e) ==
  IF c = Null \/ ~e.nodes THEN e
  ELSE [stopSource(e) EXCEPT !.sourceNode = TRUE, !.connected = TRUE]

\* sendCoefficients(params): the params it posts the design of
sendCoefficients(c, e, params) ==
  IF c = Null \/ ~e.nodes THEN <<>> ELSE <<params>>

\* start(signalParams, filterParams)
start(c, e, params) ==
  IF c = Null THEN Returned(e, <<>>)
  ELSE IF ~e.nodes
  THEN Threw(createSource(c, e), sendCoefficients(c, e, params))
  ELSE Returned([createSource(c, e) EXCEPT !.isRunning = TRUE],
                sendCoefficients(c, e, params))

\* updateFilterParams without the test of isRunning
updateFilterParamsAlways(c, e, params) == Returned(e, sendCoefficients(c, e, params))

\* updateFilterParams(params)
updateFilterParams(c, e, params) ==
  IF ~e.isRunning THEN Returned(e, <<>>)
  ELSE Returned(e, sendCoefficients(c, e, params))

\* stop(): preAnalyser?.disconnect(workletNode) throws when preAnalyser exists
\* and is not connected to workletNode, before isRunning = false
stop(e) ==
  IF e.nodes /\ ~e.connected THEN Threw(stopSource(e), <<>>)
  ELSE Returned([stopSource(e) EXCEPT !.connected = FALSE, !.isRunning = FALSE], <<>>)

\* destroy()
destroy(c, e) ==
  \* this.stop()
  IF stop(e).threw THEN stop(e)
  \* this.workletNode?.disconnect(); this.ctx?.close()
  ELSE Returned([stop(e).e EXCEPT !.output = FALSE,
                                  !.closed = IF c = Null THEN @ ELSE TRUE], <<>>)

\* the params the engine is called with
MaxEngineOrder == 4
EngineParams ==
  {Params("butterworth", "lowpass", order, 1000, 1) : order \in 1..MaxEngineOrder}

Init ==
  /\ sections = <<>>
  /\ oldCoeffs = Null
  /\ newCoeffs = Null
  /\ interpPos = 0
  /\ interpolating = FALSE
  /\ port = <<>>
  /\ inputs = NoChannel
  /\ outputs = NoChannel
  /\ ret = "none"
  /\ trace = <<>>
  /\ upd = NoUpdate
  /\ fed = NotFed
  /\ burst = NoBurst
  /\ nBlocks = 0
  /\ nMsgs = 0
  /\ nImpulses = 0
  /\ filterParams = DEFAULT_FILTER
  /\ isRunning = FALSE
  /\ ctx = Null
  /\ nDesigns = 0
  /\ memo = {}
  /\ calls = AllDesigns(DEFAULT_FILTER, DefaultRate)
  /\ engine = NewEngine
  /\ outcome = NoCall
  /\ posted = <<>>
  /\ paired = NotPaired

\* this.port.onmessage = (e) => {...} run on the message event e.data = msg
Handle(msg) ==
  /\ IF msg.type = "coefficients"
     THEN \E q \in {UpdateCoefficients(Proc, msg.sos)} :
            /\ sections' = q.sections
            /\ oldCoeffs' = q.oldCoeffs
            /\ newCoeffs' = q.newCoeffs
            /\ interpPos' = q.interpPos
            /\ interpolating' = q.interpolating
            /\ upd' = Applied(Proc, msg.sos)
            /\ fed' = FedUpdate(Proc, msg.sos)
            /\ inputs' = NoChannel
            /\ outputs' = NoChannel
            /\ ret' = "none"
            /\ trace' = <<>>
     ELSE UNCHANGED <<procVars, upd, fed, ioVars>>
  /\ UNCHANGED <<nBlocks, nImpulses, designVars, engineVars, paired>>

\* a message event reaches the worklet
OnMessage(msg) ==
  /\ msg.type = "coefficients" => nMsgs < MaxMsgs
  /\ port = <<>>
  /\ Handle(msg)
  /\ nMsgs' = IF msg.type = "coefficients" THEN nMsgs + 1 ELSE nMsgs
  /\ UNCHANGED <<port, burst>>

\* one render quantum: process(inputs, outputs)
ProcessBlock(ins, outs) ==
  /\ nBlocks < MaxBlocks
  /\ IsImpulse(ins) => nImpulses < MaxImpulses
  /\ \E r \in {Process(Proc, ins, outs)} :
       /\ InRange(r.p)
       /\ sections' = r.p.sections
       /\ oldCoeffs' = r.p.oldCoeffs
       /\ newCoeffs' = r.p.newCoeffs
       /\ interpPos' = r.p.interpPos
       /\ interpolating' = r.p.interpolating
       /\ inputs' = ins
       /\ outputs' = r.outs
       /\ ret' = r.ret
       /\ trace' = r.trace
  /\ upd' = IF ins = NoChannel \/ outs = NoChannel THEN upd
            ELSE [upd EXCEPT !.n = @ + Len(ins[1])]
  /\ fed' = IF ins = NoChannel \/ outs = NoChannel THEN fed ELSE FedBlock(ins[1])
  /\ burst' = IF burst.before = Null THEN burst ELSE [burst EXCEPT !.before = Null]
  /\ nBlocks' = nBlocks + 1
  /\ nImpulses' = IF IsImpulse(ins) THEN nImpulses + 1 ELSE nImpulses
  /\ UNCHANGED <<port, nMsgs, designVars, engineVars, paired>>

Next ==
  \/ \E msg \in Messages : OnMessage(msg)
  \/ \E block \in Blocks :
       ProcessBlock(Channel(block), Channel(Unwritten(Len(block))))
  \/ ProcessBlock(NoChannel, Channel(Unwritten(1)))
  \/ ProcessBlock(Channel(Impulse(1)), NoChannel)

Spec == Init /\ [][Next]_vars

(***************************************************************************)
(* The port between the control thread and the worklet: sendCoefficients   *)
(* posts, the port queues, and each message event runs the handler.        *)
(***************************************************************************)
\* the designs sendCoefficients can post: designFilter builds a section or more
PortDesigns == Library \ {D0}

\* this.workletNode.port.postMessage({type: "coefficients", sos: ...})
PostMessage(msg) ==
  /\ nMsgs < MaxMsgs
  /\ Len(port) < MaxPending
  /\ port' = Append(port, msg)
  /\ burst' = IF port = <<>>
              THEN [before |-> Some(Proc), size |-> 1, latest |-> msg.sos,
                    delivered |-> 0]
              ELSE [burst EXCEPT !.before = IF burst.delivered > 0 THEN Null ELSE @,
                                 !.size = @ + 1,
                                 !.latest = msg.sos]
  /\ nMsgs' = nMsgs + 1
  /\ UNCHANGED <<procVars, ioVars, upd, fed, nBlocks, nImpulses>>

\* the port delivers its oldest message: the message event runs onmessage
Deliver ==
  /\ port # <<>>
  /\ Handle(Head(port))
  /\ port' = Tail(port)
  /\ burst' = [burst EXCEPT !.delivered = @ + 1]
  /\ UNCHANGED nMsgs

NextPort ==
  \/ \E d \in PortDesigns :
       PostMessage(CoeffMsg(d)) /\ UNCHANGED <<designVars, engineVars, paired>>
  \/ Deliver
  \/ ProcessBlock(Channel(ZeroBlock(1)), Channel(Unwritten(1)))
  \/ ProcessBlock(Channel(ZeroBlock(2)), Channel(Unwritten(2)))

SpecPort == Init /\ [][NextPort]_vars

(***************************************************************************)
(* The steps of the App that call designFilter, and calls from outside it. *)
(***************************************************************************)
\* handleFilterChange(params), the render it causes and the effect on the family
HandleFilterChange(params) ==
  /\ params \in PanelChanges(filterParams, SampleRateOf(ctx))
  /\ filterParams' = params
  /\ \E sent \in {IF isRunning THEN SendCoefficients(params, SampleRateOf(ctx)) ELSE <<>>} :
       \E made \in {sent \o AllDesigns(params, SampleRateOf(ctx))
                     \o (IF params.family # filterParams.family THEN sent ELSE <<>>)} :
         /\ calls' = made
         /\ memo' = Remember(memo, made, 0)
  /\ UNCHANGED <<isRunning, ctx, nDesigns, audioVars, engineVars, paired>>

\* handleToggle() on a machine whose audio hardware runs at the rate hw
HandleToggle(hw) ==
  /\ ctx # Null => hw = Val(ctx)
  /\ ctx' = IF ctx = Null THEN Some(hw) ELSE ctx
  /\ isRunning' = ~isRunning
  /\ \E made \in {IF isRunning THEN <<>>
                  ELSE SendCoefficients(filterParams, SampleRateOf(ctx'))
                       \o (IF SampleRateOf(ctx') # SampleRateOf(ctx)
                           THEN AllDesigns(filterParams, SampleRateOf(ctx'))
                           ELSE <<>>)} :
       /\ calls' = made
       /\ memo' = Remember(memo, made, 0)
  /\ UNCHANGED <<filterParams, nDesigns, audioVars, engineVars, paired>>

NextApp ==
  \/ \E params \in PanelChanges(filterParams, SampleRateOf(ctx)) :
       HandleFilterChange(params)
  \/ \E hw \in Rates : HandleToggle(hw)

SpecApp == Init /\ [][NextApp]_vars

\* a caller outside the App calls designFilter(params, sampleRate, numFreqPoints)
DesignFilter(params, rate, numPoints) ==
  /\ nDesigns < MaxDesigns
  /\ nDesigns' = nDesigns + 1
  /\ \E made \in {<<Call("api", params, rate, numPoints)>>} :
       /\ calls' = made
       /\ memo' = Remember(memo, made, nDesigns + 1)
  /\ UNCHANGED <<filterParams, isRunning, ctx, audioVars, engineVars, paired>>

\* the first call of a run takes any input, the later ones a tracked input
NextDesign ==
  \/ /\ nDesigns = 0
     /\ \E params \in ParamSet, rate \in Rates, numPoints \in 1..MaxPoints :
          DesignFilter(params, rate, numPoints)
  \/ /\ nDesigns > 0
     /\ \E in \in Tracked : DesignFilter(in[1], in[2], in[3])

SpecDesign == Init /\ [][NextDesign]_vars

\* pairConjugatePoles(poles), once in a run
PairConjugatePoles(poles) ==
  /\ ~paired.called
  /\ paired' = [called |-> TRUE, poles |-> poles,
                sections |-> pairConjugatePoles(poles),
                slots |-> SlotsFrom(poles, 1, {}, <<>>)]
  /\ UNCHANGED <<audioVars, designVars, engineVars>>

NextPair == \E poles \in PoleLists : PairConjugatePoles(poles)

SpecPair == Init /\ [][NextPair]_vars

(***************************************************************************)
(* The calls of the AudioEngine's methods.  A design the engine posts      *)
(* goes to the worklet's port; Deliver hands it to the processor.          *)
(***************************************************************************)
\* the end of a method call that came to r
Ends(op, r) ==
  /\ engine' = r.e
  /\ outcome' = [op |-> op, threw |-> r.threw, posts |-> r.posts]
  /\ posted' = posted \o r.posts
  /\ IF r.posts = <<>>
     THEN UNCHANGED <<audioVars, calls>>
     ELSE \E made \in {SendCoefficients(r.posts[1], SampleRateOf(ctx))} :
            /\ calls' = made
            /\ PostMessage(CoeffMsg(made[1].result.sos))
  /\ UNCHANGED <<filterParams, isRunning, memo, nDesigns, paired>>

\* init() on a machine whose audio hardware runs at the rate hw, to its await
EngineInit(hw) ==
  /\ ~engine.closed
  /\ ctx' = IF ctx = Null THEN Some(hw) ELSE ctx
  /\ Ends("init", Returned(engine, <<>>))

\* init() from its await on
EngineInitResumes ==
  /\ ctx # Null
  /\ ~engine.nodes
  /\ ~engine.closed
  /\ Ends("initResumes", Returned(InitNodes(engine), <<>>))
  /\ UNCHANGED ctx

EngineStart(params) ==
  /\ ~engine.closed
  /\ Ends("start", start(ctx, engine, params))
  /\ UNCHANGED ctx

EngineUpdateFilterParams(params) ==
  /\ ~engine.closed
  /\ Ends("updateFilterParams", updateFilterParams(ctx, engine, params))
  /\ UNCHANGED ctx

EngineStop ==
  /\ ~engine.closed
  /\ Ends("stop", stop(engine))
  /\ UNCHANGED ctx

EngineDestroy ==
  /\ ~engine.closed
  /\ Ends("destroy", destroy(ctx, engine))
  /\ UNCHANGED ctx

NextEngine ==
  \/ EngineInit(DefaultRate)
  \/ EngineInitResumes
  \/ \E params \in EngineParams : EngineStart(params)
  \/ \E params \in EngineParams : EngineUpdateFilterParams(params)
  \/ EngineStop
  \/ EngineDestroy
  \/ Deliver

SpecEngine == Init /\ [][NextEngine]_vars

(***************************************************************************)
(* Properties.  A process() call is a step that changes nBlocks; an update *)
(* is a step that changes nMsgs (Spec) or shortens the port (SpecPort).    *)
(***************************************************************************)
Called == nBlocks' # nBlocks
Updated == nMsgs' # nMsgs

\* C1: whenever the processor has no sections, a process() call with an
\* input and an output block leaves the output block equal to the input block,
\* index by index and of the same length, and changes no field of the processor.
C1_PassThrough ==
  [][(Called /\ Len(sections) = 0 /\ inputs' # NoChannel /\ outputs' # NoChannel)
       => /\ Len(outputs'[1]) = Len(inputs'[1])
          /\ \A i \in 1..Len(inputs'[1]) : outputs'[1][i] = inputs'[1][i]
          /\ UNCHANGED procVars]_vars

\* a call on a processor without sections has passed an impulse through
C1_Witness ==
  /\ Len(sections) = 0
  /\ ret = "true"
  /\ inputs = Channel(Impulse(1))
  /\ outputs = Channel(Impulse(1))

(***************************************************************************)
(* The last update and the samples after it.  The samples of the latest    *)
(* process() call are the last Len(trace) of the upd.n presented since the *)
(* update; Offset(i) is the number of samples processed before the i-th    *)
(* sample of that call, so the first sample after the update has offset 0. *)
(***************************************************************************)
F == interpFrames
SameCount == upd.applied /\ Len(upd.to) = Len(upd.from)
Offset(i) == upd.n - Len(trace) + i - 1
\* the coefficients the i-th sample of the call was filtered with
Used(i) == AllCoeffs(trace[i].sections)

\* C2 (as stated): after a same-count update from O to T the first sample is
\* filtered with O, and once F samples have been processed, in any number of
\* blocks, every section holds T exactly and interpolating is false.
C2_Original ==
  SameCount =>
    /\ \A i \in 1..Len(trace) :
         /\ Offset(i) = 0 => Used(i) = upd.from
         /\ Offset(i) >= F - 1 => (Used(i) = upd.to /\ ~trace[i].interpolating)
    /\ upd.n >= F => (AllCoeffs(sections) = upd.to /\ ~interpolating)

\* C2 for a cascade of at least one section: the same statement, which holds
C2_WithSections == Len(upd.to) > 0 => C2_Original

\* a one-section interpolation toward a target that differs from where it
\* started has completed
C2_Completed ==
  /\ SameCount
  /\ Len(upd.to) = 1
  /\ upd.to # upd.from
  /\ upd.n >= F
  /\ AllCoeffs(sections) = upd.to
  /\ ~interpolating

\* ((F - t) * o + t * n) / F: the point t/F of the way from o to n
Blend(o, n, t) == Add(Mul(DivInt(F - t, F), o), Mul(DivInt(t, F), n))
BlendCoeffs(from, to, t) ==
  [k \in 1..Len(from) |->
     Coeffs(Blend(from[k].b0, to[k].b0, t), Blend(from[k].b1, to[k].b1, t),
            Blend(from[k].b2, to[k].b2, t), Blend(from[k].a1, to[k].a1, t),
            Blend(from[k].a2, to[k].a2, t))]

\* C3 (as stated): after a same-count update the sample of offset t is
\* filtered with old + (t/F)*(new - old) for every t in 0..F-1, sample F-1
\* included, and the processor is still interpolating after it (the snap
\* to the target comes at t = F, not earlier).
C3_Original ==
  SameCount =>
    \A i \in 1..Len(trace) :
      Offset(i) <= F - 1 =>
        /\ Used(i) = BlendCoeffs(upd.from, upd.to, Offset(i))
        /\ trace[i].interpolating

\* C3 as the code has it: the samples of offsets 0..F-2 are filtered with
\* old + (t/F)*(new - old); sample F-1 is filtered with the target already.
C3_SnapOneEarly ==
  SameCount =>
    \A i \in 1..Len(trace) :
      /\ Offset(i) <= F - 2 =>
           (Used(i) = BlendCoeffs(upd.from, upd.to, Offset(i)) /\ trace[i].interpolating)
      /\ Offset(i) = F - 1 => (Used(i) = upd.to /\ ~trace[i].interpolating)

\* sample F-1 of a transition between two different sets has been filtered
\* with the target, which is not the interpolated value at (F-1)/F
C3_LastSample ==
  /\ SameCount
  /\ upd.to # upd.from
  /\ \E i \in 1..Len(trace) :
       /\ Offset(i) = F - 1
       /\ Used(i) = upd.to
       /\ Used(i) # BlendCoeffs(upd.from, upd.to, F - 1)

ZeroMemory(sec) == sec.x1 = Zero /\ sec.x2 = Zero /\ sec.y1 = Zero /\ sec.y2 = Zero

\* C4: from any processor state, an update whose section count differs from
\* the current one leaves exactly the new coefficients, zero delay memory in
\* every section and interpolating = false; every sample that follows is
\* filtered with the new coefficients, the processor not interpolating.
C4_HardReset ==
  /\ [][(Updated /\ Len(upd'.to) # Len(sections)) =>
          /\ AllCoeffs(sections') = upd'.to
          /\ \A k \in 1..Len(sections') : ZeroMemory(sections'[k])
          /\ ~interpolating']_vars
  /\ [](upd.applied /\ ~SameCount =>
          /\ ~interpolating
          /\ AllCoeffs(sections) = upd.to
          /\ \A i \in 1..Len(trace) : Used(i) = upd.to /\ ~trace[i].interpolating)

\* an update to two sections has reset a one-section cascade in the middle
\* of an interpolation, and an impulse has been filtered since
C4_ResetMidInterpolation ==
  /\ upd.applied
  /\ upd.interp
  /\ Len(upd.from) = 1
  /\ Len(upd.to) = 2
  /\ inputs = Channel(Impulse(1))
  /\ Len(trace) = 1
  /\ trace[1].out # Zero

\* what an update does to a processor that is interpolating
SupersedeStep ==
  (Updated /\ interpolating) =>
    IF Len(upd'.to) = Len(sections)
    THEN /\ oldCoeffs' = Some(AllCoeffs(sections))
         /\ newCoeffs' = Some(upd'.to)
         /\ interpPos' = 0
         /\ interpolating'
         /\ sections' = sections
    ELSE /\ AllCoeffs(sections') = upd'.to
         /\ \A k \in 1..Len(sections') : ZeroMemory(sections'[k])
         /\ ~interpolating'

\* C5 (amended): an update that arrives during an interpolation supersedes
\* it: with the section count unchanged, oldCoeffs becomes the coefficients
\* the sections hold, newCoeffs the incoming set and the position 0; with
\* another count the processor is hard reset.  The interpolation then runs to
\* the new target alone: F samples later the sections hold the new set.
C5_Supersede ==
  /\ [][SupersedeStep]_vars
  /\ []((SameCount /\ upd.interp /\ upd.n >= F) => AllCoeffs(sections) = upd.to)

\* C5 (as stated): the same, and after the superseding update the sections
\* never hold the earlier target unless it equals the new one (or is what
\* they held when the update came).
C5_Original ==
  /\ [][SupersedeStep]_vars
  /\ []((/\ SameCount
         /\ upd.interp
         /\ Val(upd.target) # upd.to
         /\ Val(upd.target) # upd.from)
          => \A i \in 1..Len(trace) : Used(i) # Val(upd.target))

\* an update has superseded an interpolation that was part of the way: the
\* next one starts from the values between
C5_FromBetween ==
  /\ SameCount
  /\ upd.interp
  /\ \E k \in 1..Len(upd.from) : upd.from[k].b0[2] > 0
  /\ upd.n = 0
  /\ interpolating
  /\ interpPos = 0
  /\ oldCoeffs = Some(upd.from)
  /\ newCoeffs = Some(upd.to)

\* a burst: messages posted while none was consumed, now all delivered with
\* no process() call between
BurstDone ==
  /\ port = <<>>
  /\ burst.before # Null
  /\ burst.size >= 2
  /\ burst.delivered = burst.size

\* C6 (as stated): at most one update is pending on the port at any time,
\* and of several updates posted before the worklet consumes any only the
\* latest is applied: the processor is then as if that update alone had been
\* applied to the processor of before the burst.
C6_Original ==
  /\ Len(port) <= 1
  /\ BurstDone => Proc = UpdateCoefficients(Val(burst.before), burst.latest)

\* two updates were pending at once, both were applied in the order posted,
\* and the processor is not as the latest alone would have left it
C6_AllApplied ==
  /\ BurstDone
  /\ burst.size = 2
  /\ nMsgs = 2
  /\ Proc # UpdateCoefficients(Val(burst.before), burst.latest)

\* C7 (as stated): once F samples have been presented after an update that
\* set the processor interpolating, with no further update, interpolating is
\* false again, whatever the section count, zero included.
C7_Original == (SameCount /\ upd.n >= F) => ~interpolating

\* C7 for a cascade of at least one section, which holds
C7_WithSections == (SameCount /\ Len(upd.to) > 0 /\ upd.n >= F) => ~interpolating

\* the same-count update of an empty cascade: F samples later the processor
\* is still interpolating
C7_StuckEmpty == SameCount /\ Len(upd.to) = 0 /\ upd.n >= F /\ interpolating

Written(block) == \A i \in 1..Len(block) : block[i] # Fresh

\* C8 (amended): process() returns true in every reachable state and for
\* every input, and never throws; with the input or the output channel
\* missing it returns at once, the processor unchanged and the output block,
\* if there is one, unwritten.
C8_KeepAlive ==
  [][Called =>
       /\ ret' = "true"
       /\ (inputs' = NoChannel \/ outputs' = NoChannel) => UNCHANGED procVars
       /\ (inputs' = NoChannel /\ outputs' # NoChannel) => ~Written(outputs'[1])
       /\ (inputs' # NoChannel /\ outputs' # NoChannel) => Written(outputs'[1])]_vars

\* C8 (as stated): process() returns true always, and with a channel missing
\* the block degrades to pass-through, never to an unwritten output.
C8_Original ==
  [][Called =>
       /\ ret' = "true"
       /\ outputs' # NoChannel => Written(outputs'[1])]_vars

\* a call without an input channel has returned true and left the output
\* block unwritten, in the middle of an interpolation
C8_NoInput ==
  /\ ret = "true"
  /\ inputs = NoChannel
  /\ outputs = Channel(Unwritten(1))
  /\ interpolating
  /\ Len(sections) > 0

\* b0*x + b1*x1 + b2*x2 - a1*y1 - a2*y2 with the coefficients c and the
\* delay memory m
DifferenceEquation(c, x, m) ==
  Sub(Sub(Add(Add(Mul(c.b0, x), Mul(c.b1, m.x1)), Mul(c.b2, m.x2)),
          Mul(c.a1, m.y1)),
      Mul(c.a2, m.y2))

\* the i-th sample of a call through section k: now is the section after the
\* sample, was the section before it, x the section's input
SectionStep(now, was, x) ==
  /\ now.y1 = DifferenceEquation(now, x, was)
  /\ now.x2 = was.x1
  /\ now.x1 = x
  /\ now.y2 = was.y1

\* C9: in a processor with at least one section every sample goes through
\* the sections in array order, section k+1 fed with the output of section k;
\* each section computes y = b0*x + b1*x1 + b2*x2 - a1*y1 - a2*y2 from its
\* delay memory of before the sample and then holds x2 = old x1, x1 = x,
\* y2 = old y1, y1 = y; the output sample is the last section's y.
C9_Cascade ==
  [][(Called /\ Len(sections) > 0 /\ inputs' # NoChannel /\ outputs' # NoChannel) =>
       /\ Len(trace') = Len(inputs'[1])
       /\ Len(outputs'[1]) = Len(inputs'[1])
       /\ \A i \in 1..Len(trace') :
            /\ trace'[i].in = inputs'[1][i]
            /\ Len(trace'[i].sections) = Len(sections)
            /\ \A k \in 1..Len(sections) :
                 SectionStep(trace'[i].sections[k],
                             IF i = 1 THEN sections[k] ELSE trace'[i - 1].sections[k],
                             IF k = 1 THEN inputs'[1][i]
                             ELSE trace'[i].sections[k - 1].y1)
            /\ outputs'[1][i] = trace'[i].sections[Len(sections)].y1
       /\ sections' = trace'[Len(trace')].sections]_vars

\* a block has gone through a cascade of two sections in the middle of an
\* interpolation: the first section has fed the second a sample that is not
\* 0, and the second has given an output that is not an integer
C9_TwoSections ==
  /\ Len(sections) = 2
  /\ Len(trace) = BlockLen
  /\ \E i \in 1..Len(trace) :
       /\ trace[i].sections[1].y1 # Zero
       /\ trace[i].sections[2].y1 # trace[i].sections[1].y1
       /\ trace[i].sections[2].y2 # Zero
  /\ \E i \in 1..Len(trace) :
       /\ trace[i].interpolating
       /\ trace[i].sections[2].y1[2] > 0

\* the first n samples of the impulse response of the cascade with the fixed
\* coefficients c, run from zero delay memory
ImpulseResponse(c, n) ==
  Only({[i \in 1..Len(r.trace) |-> r.trace[i].out] :
          r \in {RunBlock([sections |-> [k \in 1..Len(c) |-> ResetSection(c[k])],
                           oldCoeffs |-> Null, newCoeffs |-> Null,
                           interpPos |-> 0, interpolating |-> FALSE],
                          Impulse(n), 1, n)}})

\* a cascade initialised with two sections, fed a unit impulse as its first
\* sample and nothing but silence after it, then given its first same-count
\* update, of which the latest call has processed a block
ImpulseThenUpdate ==
  /\ Len(fed.design) = 2
  /\ fed.ones = {0}
  /\ fed.updates = 1
  /\ SameCount
  /\ upd.at >= 1
  /\ Len(trace) > 0

\* C10 (as stated): in that scenario the output at every offset t < F after
\* the update is (1 - t/F)*h_old + (t/F)*h_new, the blend of the two
\* fixed-coefficient impulse responses at that offset, whether the offset
\* into the responses is counted from the impulse or from the update.
C10_Original ==
  ImpulseThenUpdate =>
    \E ho \in {ImpulseResponse(fed.design, fed.n)},
       hn \in {ImpulseResponse(upd.to, fed.n)} :
      \/ \A i \in 1..Len(trace) :
           Offset(i) < F =>
             trace[i].out = Blend(ho[upd.at + Offset(i) + 1],
                                  hn[upd.at + Offset(i) + 1], Offset(i))
      \/ \A i \in 1..Len(trace) :
           Offset(i) < F =>
             trace[i].out = Blend(ho[Offset(i) + 1], hn[Offset(i) + 1], Offset(i))

\* C10 (amended): in that scenario the output at offset 0 after the update is
\* the old impulse response's sample, and the sample of every offset t < F - 1
\* is filtered with the blend (1 - t/F)*old + (t/F)*new of the two sets of
\* coefficients, that of offset F - 1 with the new set: it is the
\* coefficients that are blended, not the two responses.
C10_CoefficientBlend ==
  ImpulseThenUpdate =>
    \E ho \in {ImpulseResponse(fed.design, fed.n)} :
      \A i \in 1..Len(trace) :
        /\ upd.from = fed.design
        /\ Offset(i) = 0 => trace[i].out = ho[upd.at + 1]
        /\ Offset(i) < F - 1 => Used(i) = BlendCoeffs(fed.design, upd.to, Offset(i))
        /\ Offset(i) = F - 1 => Used(i) = upd.to

\* in that scenario an output before offset F is not the blend of the two
\* impulse responses
C10_NotResponseBlend ==
  /\ ImpulseThenUpdate
  /\ upd.to # upd.from
  /\ \E ho \in {ImpulseResponse(fed.design, fed.n)},
        hn \in {ImpulseResponse(upd.to, fed.n)} :
       \E i \in 1..Len(trace) :
         /\ Offset(i) < F
         /\ trace[i].out # Blend(ho[upd.at + Offset(i) + 1],
                                 hn[upd.at + Offset(i) + 1], Offset(i))
         /\ trace[i].out # Blend(ho[Offset(i) + 1], hn[Offset(i) + 1], Offset(i))

(***************************************************************************)
(* Properties of the filter design.  The calls of a state are the          *)
(* designFilter calls of its latest step.                                  *)
(***************************************************************************)
Calls == {calls[i] : i \in 1..Len(calls)}
Families == {FAMILIES[i] : i \in 1..Len(FAMILIES)}
Negative(x) == ~IsQBig(x) /\ x[1] < 0
LeftHalfPlane(poles) == \A i \in 1..Len(poles) : Negative(poles[i].re)
InTable(c) == c.params.family # "bessel" \/ c.params.order \in DOMAIN DATA

\* C11 as stated: for every order N >= 1 and each of the three families the
\* analog prototype has exactly N poles, each with a negative real part,
\* Bessel orders above 8 included.
C11_Original ==
  \A c \in Calls :
    c.params.family \in Families =>
      \E poles \in {getAnalogPoles(c.params)} :
        Len(poles) = c.params.order /\ LeftHalfPlane(poles)

\* C11: for every order N >= 1 the Butterworth and the Chebyshev prototype, and
\* for N in 1..8 the Bessel prototype, has exactly N poles, each with a
\* strictly negative real part; for a Bessel order outside 1..8 the prototype
\* is the two poles of the order-2 table entry, in the left half plane too.
C11_PrototypePoles ==
  \A c \in Calls :
    c.params.family \in Families =>
      \E poles \in {getAnalogPoles(c.params)} :
        /\ LeftHalfPlane(poles)
        /\ Len(poles) = IF InTable(c) THEN c.params.order ELSE 2
        /\ ~InTable(c) => poles = DATA[2].poles

\* a Bessel prototype of the highest order of the table
C11_FullTable ==
  \E c \in Calls :
    /\ c.site = "api"
    /\ c.params.family = "bessel"
    /\ c.params.order = 8
    /\ Len(getAnalogPoles(c.params)) = 8

\* C12 as stated: every design has as many zeros as poles, and as many poles as
\* the order, for every family, response and order >= 1.
C12_Original ==
  \A c \in Calls :
    /\ Len(c.result.zeros) = Len(c.result.poles)
    /\ Len(c.result.poles) = c.params.order

\* C12: every design has as many zeros as poles; their number is the order,
\* except for a Bessel design of an order outside 1..8, which has two of each.
C12_Counts ==
  \A c \in Calls :
    /\ Len(c.result.zeros) = Len(c.result.poles)
    /\ Len(c.result.poles) = IF InTable(c) THEN c.params.order ELSE 2

\* a Bessel design of order 9 was returned, with two poles and two zeros
C12_AboveTable ==
  \E c \in Calls :
    /\ c.site = "api"
    /\ c.params.family = "bessel"
    /\ c.params.order = MaxOrder
    /\ ~InTable(c)
    /\ Len(c.result.poles) = 2
    /\ Len(c.result.zeros) = 2

\* |z| < 1 for the poles whose magnitude is in the range of the model
InsideUnitCircle(z) == IsQBig(Mag2(z)) \/ QLess(Mag2(z), QOne)
Stable(poles) == \A i \in 1..Len(poles) : InsideUnitCircle(poles[i])
Positive(x) == IsQBig(x) \/ x[1] > 0
\* cutoffFrequency < sampleRate / 2
BelowNyquist(c) == QLess(c.params.cutoffFrequency, Q(c.sampleRate, 2))

\* C13 as stated: for every cutoff the App passes to designFilter, between 95%
\* of Nyquist and Nyquist and above Nyquist included, the prewarped cutoff
\* omegaA is positive and every digital pole of the result has a magnitude
\* strictly less than 1.
C13_Original ==
  \A c \in Calls :
    /\ Positive(omegaAOf(c.params, c.sampleRate))
    /\ Stable(c.result.poles)

\* C13, below Nyquist: when the cutoff passed is below sampleRate / 2, omegaA
\* is positive and every digital pole has a magnitude strictly less than 1.
C13_BelowNyquist ==
  \A c \in Calls :
    BelowNyquist(c) =>
      /\ Positive(omegaAOf(c.params, c.sampleRate))
      /\ Stable(c.result.poles)

\* a design with a conjugate pair of poles, computed in range, below Nyquist
C13_PairInRange ==
  \E c \in Calls :
    /\ BelowNyquist(c)
    /\ Len(c.result.poles) = 2
    /\ ~Tiny(c.result.poles[1].im)
    /\ ~IsQBig(Mag2(c.result.poles[1]))
    /\ ~IsQBig(Mag2(c.result.poles[2]))

\* the coefficients of a section, or of all sections, are in the range of the model
SectionInRange(s) == \A k \in 1..3 : ~IsQBig(s.b[k]) /\ ~IsQBig(s.a[k])
AllInRange(sos) == \A k \in 1..Len(sos) : SectionInRange(sos[k])
\* omega / pi of the reference point: z = 1 for lowpass, z = -1 for highpass
Reference(c) == IF c.params.type = "lowpass" THEN QZero ELSE QOne
\* h, when the model computes it in range, is exactly 1
ExactlyOne(h) == CxInRange(h) => h = Cx(QOne, QZero)

IsFirstOrder(s) == s.b[3] = QZero /\ s.a[3] = QZero
FirstOrders(sos) == {k \in 1..Len(sos) : IsFirstOrder(sos[k])}
SecondOrders(sos) == {k \in 1..Len(sos) : ~IsFirstOrder(sos[k])}

\* C15: a Butterworth design of order N in 1..8 has N poles and ceil(N/2)
\* sections: floor(N/2) second-order sections, and one first-order section
\* exactly when N is odd.
C15_ButterworthSections ==
  \A c \in Calls :
    c.params.family = "butterworth" /\ c.params.order \in 1..8 =>
      /\ Len(c.result.poles) = c.params.order
      /\ Len(c.result.sos) = (c.params.order + 1) \div 2
      /\ Cardinality(SecondOrders(c.result.sos)) = c.params.order \div 2
      /\ Cardinality(FirstOrders(c.result.sos)) = c.params.order % 2

\* a Butterworth design of order 7: 7 poles, 3 second-order sections and a
\* first-order one
C15_OrderSeven ==
  \E c \in Calls :
    /\ c.site = "api"
    /\ c.params.family = "butterworth"
    /\ c.params.order = 7
    /\ Len(c.result.poles) = 7
    /\ Len(c.result.sos) = 4
    /\ FirstOrders(c.result.sos) = {4}

\* the cutoff passed is at most 95% of the Nyquist frequency of the rate passed
Clamped(c) == ~QLess(ClampLimit(c.sampleRate), c.params.cutoffFrequency)

\* C16 as stated: every designFilter call of the application, from
\* sendCoefficients and from the App, passes a cutoff of at most 95% of the
\* Nyquist frequency of the sample rate of the same call.
C16_Original == \A c \in Calls : Clamped(c)

\* C16, the audio path: every designFilter call of sendCoefficients passes a
\* cutoff of at most 95% of the Nyquist frequency of the rate of the call.
C16_EngineClamps == \A c \in Calls : c.site = "sendCoefficients" => Clamped(c)

\* sendCoefficients designed with the limit in place of the cutoff of filterParams
C16_CutoffReduced ==
  \E c \in Calls :
    /\ c.site = "sendCoefficients"
    /\ c.params.cutoffFrequency = ClampLimit(c.sampleRate)
    /\ QLess(c.params.cutoffFrequency, filterParams.cutoffFrequency)

\* a step that calls designFilter from outside the App
Designed == nDesigns' # nDesigns
\* equal inputs gave equal results, whatever was called in between
SameResults == \A d, e \in memo : d.in = e.in => d.out = e.out
\* the result of each call is the function of its inputs that designFilter computes
Determined == \A c \in Calls : c.result = designFilter(c.params, c.sampleRate, c.numPoints)

AsButterworth(c) == [c.params EXCEPT !.family = "butterworth"]

\* C18: for a family that is none of butterworth, chebyshev and bessel
\* designFilter does not fail and returns the design of family butterworth with
\* the same order, response, cutoff and sample rate; its sos is not empty.
C18_UnknownFamily ==
  \A c \in Calls :
    c.params.family \notin Families =>
      /\ c.result = designFilter(AsButterworth(c), c.sampleRate, c.numPoints)
      /\ c.params.order >= 1 => Len(c.result.sos) >= 1

\* a design of order 5 was asked for a family outside the three
C18_EllipticCall ==
  \E c \in Calls :
    /\ c.params.family \notin Families
    /\ c.params.order = 5
    /\ Len(c.result.sos) = 3
    /\ Len(c.result.poles) = 5

\* the calls for a Bessel design of an order the table has no entry for
OutsideTable == {c \in Calls : c.params.family = "bessel" /\ c.params.order \notin DOMAIN DATA}

\* C19 as stated: besselPoles(order) for an order outside the table returns the
\* pole set of besselPoles(2), the order-2 entry scaled by 1/omega3dB.
C19_Original ==
  \A c \in OutsideTable : besselPoles(c.params.order) = besselPoles(2)

\* C19, what the code does: for an order outside the table besselPoles returns
\* the poles of the order-2 entry as tabulated, not divided by omega3dB, and
\* the design built from them is one second-order section.
C19_UnscaledEntry ==
  \A c \in OutsideTable :
    /\ besselPoles(c.params.order) = DATA[2].poles
    /\ besselPoles(c.params.order) # Scaled(DATA[2])
    /\ c.result = designFilter(c.params, c.sampleRate, c.numPoints)
    /\ Len(c.result.sos) = 1

\* a Bessel design of order MaxOrder was made, and one of order 2 before it
C19_FallbackUsed ==
  /\ \E c \in OutsideTable : c.params.order = MaxOrder /\ Len(c.result.poles) = 2
  /\ \E e \in memo : e.in[1].order = 2 /\ e.in[1].family = "bessel"

\* the three arrays of the result of call c have numPoints entries, the first
\* frequency is 0 and consecutive frequencies are nyquist / numPoints apart
GridShape(c) ==
  /\ Len(c.result.frequencies) = c.numPoints
  /\ Len(c.result.magnitudeDb) = c.numPoints
  /\ Len(c.result.phase) = c.numPoints
  /\ c.result.frequencies[1] = QZero
  /\ \A i \in 1..(c.numPoints - 1) :
       QSub(c.result.frequencies[i + 1], c.result.frequencies[i])
         = Q(c.sampleRate, 2 * c.numPoints)
\* the last frequency of the result of call c
LastFrequency(c) == c.result.frequencies[c.numPoints]

\* C20 as stated: the frequency grid has exactly numPoints entries, as have
\* magnitudeDb and phase, it starts at 0 with constant spacing, and its last
\* entry equals sampleRate / 2.
C20_Original ==
  \A c \in Calls : GridShape(c) /\ LastFrequency(c) = Q(c.sampleRate, 2)

\* C20, what the code does: numPoints entries in each array, from 0 in steps
\* of nyquist / numPoints; the last entry is nyquist * (numPoints - 1) /
\* numPoints, one step below sampleRate / 2.
C20_HalfOpenGrid ==
  \A c \in Calls :
    /\ GridShape(c)
    /\ LastFrequency(c) = QSub(Q(c.sampleRate, 2), Q(c.sampleRate, 2 * c.numPoints))
    /\ QLess(LastFrequency(c), Q(c.sampleRate, 2))

\* a grid of three points at 48000 Hz: 0, 8000 and 16000 Hz
C20_ThreePoints ==
  \E c \in Calls :
    /\ c.numPoints = 3
    /\ c.sampleRate = 48000
    /\ c.result.frequencies = <<QZero, QInt(8000), QInt(16000)>>

\* the indices of the poles that pairConjugatePoles has used before it
\* pushes section k
UsedBefore(k) == UNION {{paired.slots[m][n] : n \in 1..Len(paired.slots[m])} : m \in 1..(k - 1)}
\* j is a conjugate of pole i that comes later and is not used before section k
Conjugate(i, j, k) ==
  /\ j > i
  /\ j \notin UsedBefore(k)
  /\ Tiny(QSub(paired.poles[i].re, paired.poles[j].re))
  /\ Tiny(QAdd(paired.poles[i].im, paired.poles[j].im))
\* the section of the result that holds the poles of the indices slot
PolesOf(slot) ==
  IF Len(slot) = 1 /\ Tiny(paired.poles[slot[1]].im)
  THEN <<Cx(paired.poles[slot[1]].re, QZero)>>
  ELSE [n \in 1..Len(slot) |-> paired.poles[slot[n]]]
RECURSIVE SumOfSizes(_)
SumOfSizes(secs) == IF secs = <<>> THEN 0 ELSE Len(Head(secs)) + SumOfSizes(Tail(secs))

\* C21: pairConjugatePoles partitions its input: every pole is in exactly one
\* section; a pole with a zero imaginary part forms a one-pole section, a pole
\* with a later unused conjugate a two-pole section with the first of them,
\* a pole without one a one-pole section; the section sizes add up to the
\* number of poles.
C21_Partition ==
  paired.called =>
    /\ Len(paired.sections) = Len(paired.slots)
    /\ \A k \in 1..Len(paired.slots) : paired.sections[k] = PolesOf(paired.slots[k])
    /\ \A i \in 1..Len(paired.poles) :
         Cardinality({<<k, n>> \in (1..Len(paired.slots)) \X (1..2) :
                        n <= Len(paired.slots[k]) /\ paired.slots[k][n] = i}) = 1
    /\ \A k \in 1..Len(paired.slots) :
         \E i \in {paired.slots[k][1]} :
           IF Tiny(paired.poles[i].im) THEN paired.slots[k] = <<i>>
           ELSE IF \E j \in 1..Len(paired.poles) : Conjugate(i, j, k)
           THEN /\ Len(paired.slots[k]) = 2
                /\ Conjugate(i, paired.slots[k][2], k)
                /\ \A j \in 1..(paired.slots[k][2] - 1) : ~Conjugate(i, j, k)
           ELSE paired.slots[k] = <<i>>
    /\ SumOfSizes(paired.sections) = Len(paired.poles)

\* four poles gave a real pole, a pair whose partner is not the next pole, and
\* a pole left without a partner
C21_AllThreeCases ==
  /\ paired.called
  /\ Len(paired.poles) = 4
  /\ \E k \in 1..Len(paired.slots) : Len(paired.slots[k]) = 2 /\ paired.slots[k][2] > paired.slots[k][1] + 1
  /\ \E k \in 1..Len(paired.slots) : Len(paired.slots[k]) = 1 /\ Tiny(paired.poles[paired.slots[k][1]].im)
  /\ \E k \in 1..Len(paired.slots) : Len(paired.slots[k]) = 1 /\ ~Tiny(paired.poles[paired.slots[k][1]].im)

\* the zero buildSOS places for the response of call c
ZeroOf(c) == Cx(QInt(IF c.params.type = "lowpass" THEN -1 ELSE 1), QZero)

\* C22: all zeros of a result are at (-1, 0) for a lowpass and at (+1, 0) for
\* a highpass, one for each first-order section and two for each second-order
\* section, as many as the poles.
C22_Zeros ==
  \A c \in Calls :
    /\ \A i \in 1..Len(c.result.zeros) : c.result.zeros[i] = ZeroOf(c)
    /\ Len(c.result.zeros) = Cardinality(FirstOrders(c.result.sos))
                               + 2 * Cardinality(SecondOrders(c.result.sos))
    /\ Len(c.result.zeros) = Len(c.result.poles)

\* a highpass design of order 3: a second-order and a first-order section,
\* three zeros at (+1, 0)
C22_HighpassOrderThree ==
  \E c \in Calls :
    /\ c.params.type = "highpass"
    /\ c.params.order = 3
    /\ InTable(c)
    /\ Len(c.result.sos) = 2
    /\ Cardinality(FirstOrders(c.result.sos)) = 1
    /\ c.result.zeros = <<Cx(QOne, QZero), Cx(QOne, QZero), Cx(QOne, QZero)>>

\* a step in which the port hands its oldest message to the processor
Delivered == Len(port') < Len(port)
\* the position among the designs posted of the one that step delivers
Arriving == Len(posted) - Len(port) + 1
\* the design delivered differs in order from the one delivered before it
OrderChanged == Arriving >= 2 /\ posted[Arriving].order # posted[Arriving - 1].order
\* the processor took the Reset path: the incoming coefficients, zeroed delay
\* memory and no interpolation
ResetPath ==
  /\ ~interpolating'
  /\ AllCoeffs(sections') = Incoming(Head(port).sos)
  /\ \A s \in 1..Len(sections') : ZeroMemory(sections'[s])
\* the sections a design of the order n has
SectionCount(n) == (n + 1) \div 2

\* C23 as stated: whenever the order changes between two consecutive designs
\* sent to the processor, the processor takes the Reset path.
C23_Original == [][Delivered /\ OrderChanged => ResetPath]_vars

\* C23, what the code does: when the order changes between two consecutive
\* designs, the processor takes the Reset path exactly when the number of
\* sections, ceil(order / 2), changes; from order 3 to order 4 it interpolates.
C23_SectionCountDecides ==
  [][Delivered /\ OrderChanged =>
       /\ ResetPath <=> SectionCount(posted[Arriving].order)
                          # SectionCount(posted[Arriving - 1].order)
       /\ ~ResetPath => interpolating' /\ interpPos' = 0]_vars

\* a design of order 3 and then one of order 4 were delivered, and the
\* processor interpolates between them
C23_ThreeToFour ==
  /\ Len(posted) = 2
  /\ posted[1].order = 3
  /\ posted[2].order = 4
  /\ port = <<>>
  /\ interpolating
  /\ Len(sections) = 2

\* C24: in Steady state (interpolating = false) process() changes no
\* coefficient of any section, nor interpPos, oldCoeffs or newCoeffs, whatever
\* the input: every sample of the block is filtered with the coefficients the
\* sections held, the processor stays steady, and the coefficients are those
\* of the last update applied.
C24_SteadyCoefficients ==
  /\ [][Called /\ ~interpolating =>
          /\ AllCoeffs(sections') = AllCoeffs(sections)
          /\ \A i \in 1..Len(trace') : AllCoeffs(trace'[i].sections) = AllCoeffs(sections)
          /\ UNCHANGED <<interpPos, oldCoeffs, newCoeffs, interpolating>>]_vars
  /\ [](upd.applied /\ ~interpolating => AllCoeffs(sections) = upd.to)

\* a steady cascade of one section has filtered two blocks, the first with an
\* impulse, and its delay memory is not zero
C24_SteadyBlocks ==
  /\ ~interpolating
  /\ upd.applied
  /\ nBlocks = 2
  /\ upd.n > BlockLen
  /\ Len(trace) = BlockLen
  /\ Len(sections) = 1
  /\ ~ZeroMemory(sections[1])
  /\ AllCoeffs(sections) = upd.to

\* C25: an update with an unchanged section count changes, when it is
\* applied, neither the delay memory nor the coefficients of any section: it
\* only sets oldCoeffs, newCoeffs, interpPos = 0 and interpolating = true, and
\* the next sample is filtered with the coefficients in effect just before the
\* update, also when the update arrives in the middle of an interpolation.
C25_NoJump ==
  /\ [][Updated /\ Len(upd'.to) = Len(sections) =>
          /\ sections' = sections
          /\ oldCoeffs' = Some(AllCoeffs(sections))
          /\ newCoeffs' = Some(upd'.to)
          /\ interpPos' = 0
          /\ interpolating']_vars
  /\ [](SameCount => \A i \in 1..Len(trace) : Offset(i) = 0 => Used(i) = upd.from)

\* an update arrived in the middle of an interpolation, with the coefficients
\* between the old ones and the target, and the next sample was filtered with
\* them
C25_MidInterpolation ==
  /\ SameCount
  /\ upd.interp
  /\ Len(upd.to) = 1
  /\ upd.from # Val(upd.target)
  /\ upd.from # upd.to
  /\ Val(oldCoeffs) = upd.from
  /\ Len(trace) > 0
  /\ Offset(1) = 0
  /\ Used(1) = upd.from

\* C26: in every reachable state of the processor, if interpolating is true
\* then oldCoeffs and newCoeffs are not null and have exactly one entry for
\* each section, and 0 <= interpPos < interpFrames; process() never indexes
\* them out of range.
C26_InterpolationState ==
  /\ interpolating =>
       /\ oldCoeffs # Null
       /\ newCoeffs # Null
       /\ Len(Val(oldCoeffs)) = Len(sections)
       /\ Len(Val(newCoeffs)) = Len(sections)
       /\ interpPos \in 0..(interpFrames - 1)
  /\ ~Throws(Proc)
  /\ ret # "TypeError"

\* a cascade of two sections is in the middle of an interpolation, after a
\* block of 128 samples and a block of one
C26_MidWindow ==
  /\ interpolating
  /\ Len(sections) = 2
  /\ Len(Val(oldCoeffs)) = 2
  /\ Len(Val(newCoeffs)) = 2
  /\ interpPos = BlockLen + 1

\* a step of the control context: a message is added to the port
Posting == Len(port') > Len(port)
\* the coefficients the samples of a block are filtered with when no update
\* comes between them: those held at its start, or the interpolation that was
\* in flight at its start, continued
BlockCoefficients(i) ==
  IF interpolating
  THEN BlendCoeffs(Val(oldCoeffs), Val(newCoeffs), interpPos + i - 1)
  ELSE AllCoeffs(sections)

\* C27: the processor's state changes only in the audio context, by the
\* message handler or by process(); the control context only adds messages to
\* the port; and no update takes effect between two samples of a block: a
\* message waiting in the port is left there by process(), and every sample of
\* the block is filtered with the cascade and the interpolation the block
\* started with.
C27_Atomic ==
  [][/\ Posting => UNCHANGED <<procVars, ioVars, upd, fed, nBlocks>>
     /\ procVars' # procVars => Delivered \/ Called
     /\ Delivered => nBlocks' = nBlocks /\ trace' = <<>>
     /\ Called =>
          /\ port' = port
          /\ oldCoeffs' = oldCoeffs
          /\ newCoeffs' = newCoeffs
          /\ upd' = [upd EXCEPT !.n = upd'.n]
          /\ \A i \in 1..Len(trace') :
               AllCoeffs(trace'[i].sections) = BlockCoefficients(i)]_vars

\* a block of two samples was processed in the middle of an interpolation
\* while an update with other coefficients was waiting in the port
C27_UpdateWaits ==
  /\ port # <<>>
  /\ Len(trace) = 2
  /\ interpolating
  /\ interpPos = 2
  /\ Used(1) # Used(2)
  /\ Incoming(Head(port).sos) # Val(newCoeffs)
  /\ Len(Head(port).sos) = Len(sections)

\* a step that is a call of the method op of the engine
EngineCall(op) == outcome'.op = op /\ ~Delivered

\* C28: a coefficients message is posted only by start() on an initialised
\* engine or by updateFilterParams() while isRunning is true; start() before
\* init() and updateFilterParams() on a stopped or un-initialised engine post
\* nothing and leave isRunning unchanged; isRunning is true only while a source
\* node exists.
C28_PostsOnlyWhenRunning ==
  /\ [](engine.isRunning => engine.sourceNode)
  /\ [][/\ (Posting \/ posted' # posted) =>
             /\ Len(port') = Len(port) + 1
             /\ Len(posted') = Len(posted) + 1
             /\ \/ EngineCall("start") /\ ctx # Null /\ engine.nodes
                \/ EngineCall("updateFilterParams") /\ engine.isRunning
        /\ EngineCall("start") /\ ctx = Null =>
             UNCHANGED <<port, posted, engine>> /\ ~outcome'.threw
        /\ EngineCall("updateFilterParams") /\ (~engine.isRunning \/ ctx = Null \/ ~engine.nodes) =>
             UNCHANGED <<port, posted, engine>> /\ ~outcome'.threw]_vars

\* a running engine has posted two designs, the first in start() and the
\* second, of another order, in updateFilterParams()
C28_StartThenUpdate ==
  /\ engine.isRunning
  /\ engine.sourceNode
  /\ Len(posted) = 2
  /\ posted[1] # posted[2]
  /\ outcome.op = "updateFilterParams"
  /\ outcome.posts = <<posted[2]>>

\* the engine is initialised: init() has run to its end
Initialised == ctx # Null /\ engine.nodes

\* C29 as stated: destroy() on an initialised engine, never started, running
\* or stopped, completes without throwing and reaches ctx.close(), and a
\* stop() that follows a stop() is safe.
C29_Original ==
  [][/\ EngineCall("destroy") /\ Initialised => ~outcome'.threw /\ engine'.closed
     /\ EngineCall("stop") /\ outcome.op = "stop" => ~outcome'.threw]_vars

\* C29, what the code does: on an initialised engine stop() and destroy()
\* throw exactly when preAnalyser is not connected to the worklet node (never
\* started, or stopped), and destroy() then leaves the worklet node connected
\* and the context open; on a running engine destroy() completes and closes
\* the context.
C29_ThrowsWhenStopped ==
  [][EngineCall("stop") \/ EngineCall("destroy") =>
       /\ outcome'.threw <=> engine.nodes /\ ~engine.connected
       /\ outcome'.threw => ~engine'.closed /\ engine'.output = engine.output
       /\ EngineCall("destroy") /\ engine.isRunning =>
            ~outcome'.threw /\ engine'.closed /\ ~engine'.isRunning]_vars

\* the engine was started and stopped, and the destroy() that followed threw:
\* the context is not closed
C29_DestroyAfterStop ==
  /\ outcome.op = "destroy"
  /\ outcome.threw
  /\ Initialised
  /\ Len(posted) >= 1
  /\ ~engine.isRunning
  /\ ~engine.closed
  /\ engine.output

\* the calls for a Chebyshev design
Chebyshevs == {c \in Calls : c.params.family = "chebyshev"}
\* the poles times the factor
PolesTimes(poles, factor) ==
  [i \in 1..Len(poles) |-> Cx(QMul(poles[i].re, factor), QMul(poles[i].im, factor))]
\* the output of chebyshevPoles for call c, and that output rescaled by its
\* passbandToDb3Scale, divided or multiplied
RawPoles(c) == chebyshevPoles(c.params.order, c.params.rippleDb)
ScaleOf(c) == passbandToDb3Scale(c.params.order, c.params.rippleDb)
RescaledPoles(c) == {PolesTimes(RawPoles(c), QInv(ScaleOf(c))), PolesTimes(RawPoles(c), ScaleOf(c))}

\* C30 as stated: for the chebyshev family getAnalogPoles returns the output
\* of chebyshevPoles rescaled by its passbandToDb3Scale, not the raw output.
C30_Original ==
  \A c \in Chebyshevs :
    /\ getAnalogPoles(c.params) \in RescaledPoles(c)
    /\ getAnalogPoles(c.params) # RawPoles(c)

\* C30, what the code does: for the chebyshev family getAnalogPoles returns
\* the raw output of chebyshevPoles, normalised to the passband edge; the
\* factor passbandToDb3Scale, greater than 1, is dropped, and the design is
\* built from the raw poles.
C30_RawChebyshevPoles ==
  \A c \in Chebyshevs :
    /\ getAnalogPoles(c.params) = RawPoles(c)
    /\ QLess(QOne, ScaleOf(c))
    /\ getAnalogPoles(c.params) \notin RescaledPoles(c)
    /\ c.result.sos = buildSOS(c.params, c.sampleRate, RawPoles(c)).sos

\* a Chebyshev design of order 2 with a ripple of 1 dB, whose scale factor is
\* 1 + (13/20)^2 / 2
C30_OrderTwo ==
  \E c \in Chebyshevs :
    /\ c.params.order = 2
    /\ c.params.rippleDb = 1
    /\ ScaleOf(c) = Q(969, 800)
    /\ Len(c.result.sos) = 1

====
